---------------------------- MODULE Spec2Model ----------------------------
(***************************************************************************)
(* A model of cilens (dsalaza4/cilens): the GitLab ingestion path          *)
(* (client/pipelines.rs, core.rs), the pipeline-type clustering            *)
(* (pipeline_types.rs) and the critical-path analysis (critical_path.rs).  *)
(***************************************************************************)
EXTENDS Integers, Sequences, FiniteSets, TLC

(***************************************************************************)
(* Bounds of the model.                                                    *)
(***************************************************************************)
\* largest `limit` handed to collect_insights in the ingestion runs
MaxLimit == 4
\* requests one status stream may issue before the model stops following it
MaxRequests == 3
\* pages of jobs the remote holds for one pipeline, at most
MaxJobPages == 2
\* items the remote may return beyond the `first` that was asked for
Overshoot == 1
\* pipeline summaries handed to join_all in the fan-out runs
MaxFanOut == 11

(***************************************************************************)
(* Program constants.                                                      *)
(***************************************************************************)
PAGE_SIZE == 50

\* Option<T>: None, Some(x)
None == << >>
Some(x) == <<x>>

Min(a, b) == IF a <= b THEN a ELSE b

\* usize::saturating_sub
saturating_sub(a, b) == IF a >= b THEN a - b ELSE 0

\* Vec::truncate
truncate(s, n) == IF Len(s) <= n THEN s ELSE SubSeq(s, 1, n)

(***************************************************************************)
(* f64 arithmetic (IEEE 754 binary64, round to nearest, ties to even) on   *)
(* the values the percentage needs.  A positive value is its exponent and  *)
(* its 53-bit significand M, 2^52 <= M < 2^53, the value being             *)
(* M * 2^(exp - 52); M is held in three limbs, M = hi * 2^36 + mid * 2^18  *)
(* + lo, so that no intermediate result leaves 32 bits.  Zero has M = 0.   *)
(***************************************************************************)
RECURSIVE pow2(_)
pow2(k) == IF k = 0 THEN 1 ELSE 2 * pow2(k - 1)

Limb == pow2(18)
TopLimb == pow2(17)

f64_zero == [exp |-> 0, hi |-> 0, mid |-> 0, lo |-> 0]

\* the significand M (or M + 1 when `up`) at exponent exp, renormalised
f64_round(exp, hi, mid, lo, up) ==
    LET lo1  == IF up THEN lo + 1 ELSE lo
        mid1 == mid + lo1 \div Limb
        hi1  == hi + mid1 \div Limb
    IN  IF hi1 = TopLimb
        THEN [exp |-> exp + 1, hi |-> TopLimb \div 2, mid |-> 0, lo |-> 0]
        ELSE [exp |-> exp, hi |-> hi1, mid |-> mid1 % Limb, lo |-> lo1 % Limb]

\* the k with d * 2^k <= n < d * 2^(k+1), for n >= d
RECURSIVE shift_up(_, _)
shift_up(n, d) == IF 2 * d <= n THEN 1 + shift_up(n, 2 * d) ELSE 0

\* (c as f64) / (t as f64) for integers 0 <= c < 2^12, 1 <= t < 2^12:
\* long division of n / d in [1, 2), 16 + 18 + 18 quotient bits after the
\* leading 1, then the rounding by the remainder.
f64_div(c, t) ==
    IF c = 0 THEN f64_zero
    ELSE LET up   == IF c >= t THEN shift_up(c, t) ELSE 0
             down == IF c >= t THEN 0 ELSE shift_up(2 * t - 1, c)
             n    == c * pow2(down)
             d    == t * pow2(up)
             r0   == n - d
             hi   == TopLimb \div 2 + (r0 * (TopLimb \div 2)) \div d
             r1   == (r0 * (TopLimb \div 2)) % d
             mid  == (r1 * Limb) \div d
             r2   == (r1 * Limb) % d
             lo   == (r2 * Limb) \div d
             r3   == (r2 * Limb) % d
         IN  f64_round(up - down, hi, mid, lo,
                       \/ 2 * r3 > d
                       \/ 2 * r3 = d /\ lo % 2 = 1)

\* x * (k as f64) for an integer 1 <= k < 2^7: the exact product in limbs,
\* shifted right by the bits it has beyond 53, rounded by the bits dropped.
f64_mul(x, k) ==
    IF x.hi = 0 THEN f64_zero
    ELSE LET plo  == x.lo * k
             pmid == x.mid * k + plo \div Limb
             phi  == x.hi * k + pmid \div Limb
             lo0  == plo % Limb
             mid0 == pmid % Limb
             drop == shift_up(phi, TopLimb \div 2)
             cut  == pow2(drop)
             rem  == lo0 % cut
             lo1  == lo0 \div cut + (mid0 % cut) * (Limb \div cut)
             mid1 == mid0 \div cut + (phi % cut) * (Limb \div cut)
             hi1  == phi \div cut
         IN  f64_round(x.exp + drop, hi1, mid1, lo1,
                       \/ 2 * rem > cut
                       \/ 2 * rem = cut /\ lo1 % 2 = 1)

\* the integer part of a value below 2^17
f64_floor(x) ==
    IF x.hi = 0 \/ x.exp < 0 THEN 0
    ELSE x.hi \div pow2(16 - x.exp)

\* x >= f64::from(m) for an integer m >= 0
f64_ge(x, m) == f64_floor(x) >= m

\* n as f64 for an integer 0 <= n < 2^12
f64_from(n) == f64_div(n, 1)

\* x < y
f64_lt(x, y) ==
    IF y.hi = 0 THEN FALSE
    ELSE IF x.hi = 0 THEN TRUE
    ELSE \/ x.exp < y.exp
         \/ x.exp = y.exp /\ x.hi < y.hi
         \/ x.exp = y.exp /\ x.hi = y.hi /\ x.mid < y.mid
         \/ x.exp = y.exp /\ x.hi = y.hi /\ x.mid = y.mid /\ x.lo < y.lo


(***************************************************************************)
(* Strings are sequences of bytes (ASCII), as Rust's str.                  *)
(***************************************************************************)
\* str::to_lowercase on ASCII
to_lowercase(str) ==
    [i \in 1..Len(str) |-> IF str[i] >= 65 /\ str[i] <= 90 THEN str[i] + 32
                           ELSE str[i]]

\* str::contains(pat)
contains(str, pat) ==
    \E i \in 1..(Len(str) - Len(pat) + 1) :
        SubSeq(str, i, i + Len(pat) - 1) = pat

\* Ord for String: lexicographic on the bytes
RECURSIVE str_lt(_, _)
str_lt(a, b) ==
    IF b = << >> THEN FALSE
    ELSE IF a = << >> THEN TRUE
    ELSE IF Head(a) # Head(b) THEN Head(a) < Head(b)
    ELSE str_lt(Tail(a), Tail(b))

\* "prod", "staging", "dev", "test", "qa"
KwProd    == <<112, 114, 111, 100>>
KwStaging == <<115, 116, 97, 103, 105, 110, 103>>
KwDev     == <<100, 101, 118>>
KwTest    == <<116, 101, 115, 116>>
KwQa      == <<113, 97>>

\* the orders in which a HashMap with these keys may be iterated
RECURSIVE Orders(_)
Orders(keys) ==
    IF keys = {} THEN {<< >>}
    ELSE UNION {{<<k>> \o rest : rest \in Orders(keys \ {k})} : k \in keys}

(***************************************************************************)
(* critical_path.rs: the critical path of one pipeline.  Durations are    *)
(* f64 in the code; here they are small non-negative integers, whose sums *)
(* f64 holds exactly.  job_analysis.rs:86-156 repeats calculate_finish_time*)
(* and get_dependencies word for word.                                     *)
(***************************************************************************)
VARIABLES
    pipeline,         \* the GitLabPipeline: [stages, jobs]
    finish_times,     \* the `finish_times` map once the loop has run
    predecessors,     \* the `predecessors` map once the loop has run
    critical_path,    \* the Option<CriticalPath> returned
    path_pc           \* "idle", "input", "done"

path_vars == <<pipeline, finish_times, predecessors, critical_path, path_pc>>

NoMap == [k \in {} |-> 0]

insert(map, key, value) ==
    [k \in DOMAIN map \cup {key} |-> IF k = key THEN value ELSE map[k]]

\* pipeline.jobs.iter().map(|j| (j.name.as_str(), j)).collect(): a later job
\* replaces an earlier one of the same name; `keys` is the order in which
\* this HashMap iterates
job_map_of(jobs, keys) ==
    [keys    |-> keys,
     entries |-> [n \in {jobs[i].name : i \in 1..Len(jobs)} |->
                     jobs[CHOOSE i \in 1..Len(jobs) :
                              /\ jobs[i].name = n
                              /\ \A k \in (i + 1)..Len(jobs) :
                                     jobs[k].name # n]]]

\* stage name -> position in pipeline.stages, counted from 0
stage_index_of(stages) ==
    [st \in {stages[i] : i \in 1..Len(stages)} |->
        (CHOOSE i \in 1..Len(stages) :
             /\ stages[i] = st
             /\ \A k \in (i + 1)..Len(stages) : stages[k] # st) - 1]

\* stage_index.get(stage).copied().unwrap_or(0)
stage_or_0(stage_index, stage) ==
    IF stage \in DOMAIN stage_index THEN stage_index[stage] ELSE 0

RECURSIVE earlier_stage_jobs(_, _, _, _)
earlier_stage_jobs(keys, job_map, stage_index, current_stage) ==
    IF keys = << >> THEN << >>
    ELSE (IF stage_or_0(stage_index, job_map.entries[Head(keys)].stage)
                 < current_stage
          THEN <<Head(keys)>> ELSE << >>)
         \o earlier_stage_jobs(Tail(keys), job_map, stage_index, current_stage)

\* get_dependencies with `<=` for `<`: the jobs of the job's own stage too
get_dependencies_same_stage(job, job_map, stage_index) ==
    IF job.needs # None
    THEN job.needs[1]
    ELSE earlier_stage_jobs(job_map.keys, job_map, stage_index,
                            stage_or_0(stage_index, job.stage) + 1)

get_dependencies(job, job_map, stage_index) ==
    IF job.needs # None
    THEN job.needs[1]
    ELSE earlier_stage_jobs(job_map.keys, job_map, stage_index,
                            stage_or_0(stage_index, job.stage))

\* Iterator::min_by in place of max_by: the first of the fastest
RECURSIVE min_by_time(_, _)
min_by_time(pairs, best) ==
    IF pairs = << >> THEN best
    ELSE min_by_time(Tail(pairs),
                     IF best = None \/ Head(pairs)[2] < best[1][2]
                     THEN Some(Head(pairs)) ELSE best)

\* the first pair the iteration reaches, in place of max_by
first_by_time(pairs, best) ==
    IF pairs = << >> THEN best ELSE Some(Head(pairs))

\* Iterator::max_by over (dep, time) pairs: the last of the maxima
RECURSIVE max_by_time(_, _)
max_by_time(pairs, best) ==
    IF pairs = << >> THEN best
    ELSE max_by_time(Tail(pairs),
                     IF best = None \/ Head(pairs)[2] >= best[1][2]
                     THEN Some(Head(pairs)) ELSE best)

\* calculate_finish_time and the map over deps that calls it; memo holds
\* the two maps the code passes by &mut
RECURSIVE calculate_finish_time(_, _, _, _)
RECURSIVE dep_times(_, _, _, _)
dep_times(deps, job_map, stage_index, memo) ==
    IF deps = << >> THEN [memo |-> memo, pairs |-> << >>]
    ELSE LET m1   == calculate_finish_time(Head(deps), job_map, stage_index,
                                           memo)
             rest == dep_times(Tail(deps), job_map, stage_index, m1)
         IN  [memo  |-> rest.memo,
              pairs |-> <<<<Head(deps), m1.finish_times[Head(deps)]>>>>
                        \o rest.pairs]

calculate_finish_time(job_name, job_map, stage_index, memo) ==
    IF job_name \in DOMAIN memo.finish_times THEN memo
    ELSE IF job_name \notin DOMAIN job_map.entries
    THEN [memo EXCEPT !.finish_times = insert(@, job_name, 0)]
    ELSE
      LET job  == job_map.entries[job_name]
          deps == get_dependencies(job, job_map, stage_index)
      IN  IF deps = << >>
          THEN [memo EXCEPT !.finish_times = insert(@, job_name, job.duration)]
          ELSE
            LET visited      == dep_times(deps, job_map, stage_index, memo)
                slowest      == max_by_time(visited.pairs, None)
                slowest_dep  == slowest[1][1]
                slowest_time == slowest[1][2]
                finish_time  == slowest_time + job.duration
            IN  [finish_times |->
                     insert(visited.memo.finish_times, job_name, finish_time),
                 predecessors |->
                     IF slowest_time > 0
                     THEN insert(visited.memo.predecessors, job_name,
                                 slowest_dep)
                     ELSE visited.memo.predecessors]

\* for &job_name in job_map.keys() { calculate_finish_time(..) }
RECURSIVE finish_all(_, _, _, _)
finish_all(keys, job_map, stage_index, memo) ==
    IF keys = << >> THEN memo
    ELSE finish_all(Tail(keys), job_map, stage_index,
                    calculate_finish_time(Head(keys), job_map, stage_index,
                                          memo))

all_jobs_parallel(jobs) ==
    \A i \in 1..Len(jobs) : jobs[i].needs = Some(<< >>)

\* (duration / total_duration) * 100.0, or 0.0
create_job_detail(name, duration, total_duration) ==
    [name               |-> name,
     avg_duration       |-> duration,
     percentage_of_path |->
         IF total_duration > 0
         THEN f64_mul(f64_div(duration, total_duration), 100)
         ELSE f64_zero]

\* max_by over a slice keyed by f(element): the last of the maxima
RECURSIVE max_by_key(_, _, _)
max_by_key(seq, f(_), best) ==
    IF seq = << >> THEN best
    ELSE max_by_key(Tail(seq), f,
                    IF best = None \/ f(Head(seq)) >= f(best[1])
                    THEN Some(Head(seq)) ELSE best)

duration_of(j) == j.duration
avg_duration_of(j) == j.avg_duration

parallel_jobs_path(p) ==
    LET slowest == max_by_key(p.jobs, duration_of, None)[1]
        job == [name               |-> slowest.name,
                avg_duration       |-> slowest.duration,
                percentage_of_path |-> f64_mul(f64_div(1, 1), 100)]
    IN  Some([jobs           |-> <<job>>,
              total_duration |-> slowest.duration,
              bottleneck     |-> Some(job)])

\* the chain last_job, predecessors[last_job], .. reversed
RECURSIVE build_path(_, _)
build_path(last_job, preds) ==
    IF last_job \in DOMAIN preds
    THEN build_path(preds[last_job], preds) \o <<last_job>>
    ELSE <<last_job>>

RECURSIVE job_details(_, _, _)
job_details(path, job_map, total_duration) ==
    IF path = << >> THEN << >>
    ELSE (IF Head(path) \in DOMAIN job_map.entries
          THEN <<create_job_detail(Head(path),
                                   job_map.entries[Head(path)].duration,
                                   total_duration)>>
          ELSE << >>)
         \o job_details(Tail(path), job_map, total_duration)

build_critical_path(path, job_map, total_duration) ==
    LET jobs == job_details(path, job_map, total_duration)
    IN  Some([jobs           |-> jobs,
              total_duration |-> total_duration,
              bottleneck     |-> max_by_key(jobs, avg_duration_of, None)])

\* calculate_critical_path.  The HashMaps iterate in an order of their own:
\* job_map in `keys`, and of finish_times the max_by returns the maximum
\* that its order reaches last, which can be any of the maxima.
calculate_critical_path ==
    /\ path_pc = "input"
    /\ path_pc' = "done"
    /\ IF pipeline.jobs = << >>
       THEN /\ critical_path' = None
            /\ UNCHANGED <<finish_times, predecessors>>
       ELSE IF all_jobs_parallel(pipeline.jobs)
       THEN /\ critical_path' = parallel_jobs_path(pipeline)
            /\ UNCHANGED <<finish_times, predecessors>>
       ELSE \E keys \in Orders({pipeline.jobs[i].name :
                                   i \in 1..Len(pipeline.jobs)}) :
              LET job_map     == job_map_of(pipeline.jobs, keys)
                  stage_index == stage_index_of(pipeline.stages)
                  memo == finish_all(keys, job_map, stage_index,
                                     [finish_times |-> NoMap,
                                      predecessors |-> NoMap])
                  ft   == memo.finish_times
              IN  /\ finish_times' = ft
                  /\ predecessors' = memo.predecessors
                  /\ \E last_job \in DOMAIN ft :
                        /\ \A k \in DOMAIN ft : ft[k] <= ft[last_job]
                        /\ critical_path' =
                             build_critical_path(
                                 build_path(last_job, memo.predecessors),
                                 job_map, ft[last_job])
    /\ UNCHANGED pipeline

\* Inputs.  Jobs a, b, c with durations 0..MaxDuration, in a listed stage or
\* an unlisted one; needs absent, empty, or naming earlier jobs and a job
\* that the pipeline does not have.
MaxDuration == 1

JobNames == <<"a", "b", "c">>
Ghost == "ghost"
StageList == <<"build", "test">>
JobStages == {"build", "test", "extra"}

PathJob(name, stage, duration, needs) ==
    [name |-> name, stage |-> stage, duration |-> duration, needs |-> needs]

NeedsOf(i) ==
    {None, Some(<< >>), Some(<<Ghost>>)}
    \cup {Some(<<JobNames[j]>>) : j \in 1..(i - 1)}
    \cup {Some(<<JobNames[j], Ghost>>) : j \in 1..(i - 1)}
    \cup {Some(<<JobNames[jk[1]], JobNames[jk[2]]>>) :
              jk \in {x \in (1..(i - 1)) \X (1..(i - 1)) : x[1] # x[2]}}

\* the first job may be in the unlisted stage
StagesAt(i) == IF i = 1 THEN JobStages ELSE JobStages \ {"extra"}

JobsAt(i) ==
    {PathJob(JobNames[i], st, d, n) :
        st \in StagesAt(i), d \in 0..MaxDuration, n \in NeedsOf(i)}

RECURSIVE JobLists(_)
JobLists(n) ==
    IF n = 0 THEN {<< >>}
    ELSE {js \o <<j>> : js \in JobLists(n - 1), j \in JobsAt(n)}

\* the names a job waits for, whatever the iteration order
DepSet(p, job) ==
    IF job.needs # None
    THEN {job.needs[1][i] : i \in 1..Len(job.needs[1])}
    ELSE {p.jobs[i].name : i \in
             {k \in 1..Len(p.jobs) :
                 stage_or_0(stage_index_of(p.stages), p.jobs[k].stage)
                   < stage_or_0(stage_index_of(p.stages), job.stage)}}

RECURSIVE Reaches(_, _, _, _)
Reaches(p, from, to, steps) ==
    /\ steps > 0
    /\ \E i \in 1..Len(p.jobs) :
          /\ p.jobs[i].name = from
          /\ \/ to \in DepSet(p, p.jobs[i])
             \/ \E mid \in DepSet(p, p.jobs[i]) :
                    Reaches(p, mid, to, steps - 1)

Acyclic(p) ==
    \A i \in 1..Len(p.jobs) :
        ~Reaches(p, p.jobs[i].name, p.jobs[i].name, Len(p.jobs))

\* build 10 -> test 20 -> deploy 5
StagedExample ==
    [stages |-> <<"build", "test", "deploy">>,
     jobs   |-> <<PathJob("build", "build", 10, Some(<< >>)),
                  PathJob("test", "test", 20, Some(<<"build">>)),
                  PathJob("deploy", "deploy", 5, Some(<<"test">>))>>]

PathIdle ==
    /\ pipeline = [stages |-> << >>, jobs |-> << >>]
    /\ finish_times = NoMap
    /\ predecessors = NoMap
    /\ critical_path = None
    /\ path_pc = "idle"

PathInit ==
    /\ \/ pipeline = StagedExample
       \/ \E n \in 0..Len(JobNames) :
            \E js \in JobLists(n) :
                pipeline = [stages |-> StageList, jobs |-> js]
    /\ Acyclic(pipeline)
    /\ finish_times = NoMap
    /\ predecessors = NoMap
    /\ critical_path = None
    /\ path_pc = "input"

PathNext == calculate_critical_path

(***************************************************************************)
(* job_analysis.rs: the per-job metrics of one pipeline.  The finish-time  *)
(* walk is the one of critical_path.rs above.                              *)
(***************************************************************************)
\* map.get(key).unwrap_or(default)
get_or(map, key, default) ==
    IF key \in DOMAIN map THEN map[key] ELSE default

\* the names of `keys` that are in `set`, in the order of `keys`
RECURSIVE restrict_order(_, _)
restrict_order(keys, set) ==
    IF keys = << >> THEN << >>
    ELSE (IF Head(keys) \in set THEN <<Head(keys)>> ELSE << >>)
         \o restrict_order(Tail(keys), set)

RECURSIVE sum(_)
sum(values) == IF values = << >> THEN 0 ELSE Head(values) + sum(Tail(values))

\* build_predecessor_list without the rev(): from the job toward the source
RECURSIVE predecessor_list_from_job(_, _, _)
predecessor_list_from_job(job_name, preds, job_map) ==
    IF job_name \notin DOMAIN preds THEN << >>
    ELSE LET pred == preds[job_name]
         IN  (IF pred \in DOMAIN job_map.entries
              THEN <<[name |-> pred,
                      avg_duration_seconds |->
                          job_map.entries[pred].duration]>>
              ELSE << >>)
             \o predecessor_list_from_job(pred, preds, job_map)

\* successors(Some(job_name), predecessors.get).skip(1), kept where the
\* name is a job, reversed
RECURSIVE build_predecessor_list(_, _, _)
build_predecessor_list(job_name, preds, job_map) ==
    IF job_name \notin DOMAIN preds THEN << >>
    ELSE LET pred == preds[job_name]
         IN  build_predecessor_list(pred, preds, job_map)
             \o (IF pred \in DOMAIN job_map.entries
                 THEN <<[name |-> pred,
                         avg_duration_seconds |->
                             job_map.entries[pred].duration]>>
                 ELSE << >>)

\* metrics.sort_by(|a, b| b.feedback.partial_cmp(&a.feedback)): stable,
\* latest first; x goes before the first element that it exceeds
RECURSIVE insert_by_feedback(_, _)
insert_by_feedback(sorted, x) ==
    IF sorted = << >> THEN <<x>>
    ELSE IF x.avg_time_to_feedback_seconds
              > Head(sorted).avg_time_to_feedback_seconds
    THEN <<x>> \o sorted
    ELSE <<Head(sorted)>> \o insert_by_feedback(Tail(sorted), x)

RECURSIVE sort_by_feedback(_, _)
sort_by_feedback(items, acc) ==
    IF items = << >> THEN acc
    ELSE sort_by_feedback(Tail(items), insert_by_feedback(acc, Head(items)))

\* calculate_job_metrics, job_map iterating in `keys`
calculate_job_metrics(p, keys) ==
    IF p.jobs = << >> THEN << >>
    ELSE
      LET job_map     == job_map_of(p.jobs, keys)
          stage_index == stage_index_of(p.stages)
          memo == finish_all(keys, job_map, stage_index,
                             [finish_times |-> NoMap, predecessors |-> NoMap])
          metrics ==
            [i \in 1..Len(keys) |->
               [name |-> keys[i],
                avg_duration_seconds |-> job_map.entries[keys[i]].duration,
                avg_time_to_feedback_seconds |->
                    get_or(memo.finish_times, keys[i], 0),
                predecessors |->
                    build_predecessor_list(keys[i], memo.predecessors,
                                           job_map)]]
      IN  sort_by_feedback(metrics, << >>)

(***************************************************************************)
(* type_metrics.rs: the metrics of one cluster.  Links are held as the ids *)
(* they are formatted from.                                                *)
(***************************************************************************)
\* calculate_rate without the division by the total
calculate_rate_of_count(count, total) ==
    IF total > 0 THEN f64_mul(f64_from(count), 100) ELSE f64_zero

calculate_rate(count, total) ==
    IF total > 0 THEN f64_mul(f64_div(count, total), 100) ELSE f64_zero

calculate_success_rate(successful, total) ==
    f64_mul(f64_div(successful, IF total >= 1 THEN total ELSE 1), 100)

compute_mean(values) ==
    IF values = << >> THEN f64_zero ELSE f64_div(sum(values), Len(values))

calculate_avg_duration(ps) ==
    IF ps = << >> THEN f64_zero
    ELSE f64_div(sum([i \in 1..Len(ps) |-> ps[i].duration]), Len(ps))

RECURSIVE filter_status(_, _)
filter_status(ps, status) ==
    IF ps = << >> THEN << >>
    ELSE (IF Head(ps).status = status THEN <<Head(ps)>> ELSE << >>)
         \o filter_status(Tail(ps), status)

to_pipeline_links(ps) ==
    [count |-> Len(ps), links |-> [i \in 1..Len(ps) |-> ps[i].id]]

empty_job_count == [count |-> 0, links |-> << >>]

\* group_jobs_by_name: name -> its records, in the order of the job list
RECURSIVE records_named(_, _)
records_named(jobs, name) ==
    IF jobs = << >> THEN << >>
    ELSE (IF Head(jobs).name = name THEN <<Head(jobs)>> ELSE << >>)
         \o records_named(Tail(jobs), name)

group_jobs_by_name(jobs) ==
    [name \in {jobs[i].name : i \in 1..Len(jobs)} |->
        records_named(jobs, name)]

\* jobs.iter().find(|j| !j.retried)
RECURSIVE find_final(_)
find_final(jobs) ==
    IF jobs = << >> THEN None
    ELSE IF ~Head(jobs).retried THEN Some(Head(jobs))
    ELSE find_final(Tail(jobs))

RECURSIVE retried_ids(_)
retried_ids(jobs) ==
    IF jobs = << >> THEN << >>
    ELSE (IF Head(jobs).retried THEN <<Head(jobs).id>> ELSE << >>)
         \o retried_ids(Tail(jobs))

\* is_job_flaky asking no more than that some record was retried
is_job_flaky_whatever_the_end(jobs) ==
    \E i \in 1..Len(jobs) : jobs[i].retried

is_job_flaky(jobs) ==
    LET was_retried     == \E i \in 1..Len(jobs) : jobs[i].retried
        final           == find_final(jobs)
        final_succeeded == final # None /\ final[1].status = "SUCCESS"
    IN  was_retried /\ final_succeeded

is_job_failed(jobs) ==
    LET final == find_final(jobs)
    IN  final = None \/ final[1].status # "SUCCESS"

\* count_job counting one execution for a name however many records it has
count_job_once_per_name(acc, name, jobs) ==
    LET counted == [acc EXCEPT !.execution_counts =
                        insert(@, name, get_or(@, name, 0) + 1)]
    IN  IF is_job_flaky(jobs)
        THEN [counted EXCEPT
                !.flaky_retries =
                    insert(@, name, get_or(@, name, 0) + Len(retried_ids(jobs))),
                !.flaky_job_links =
                    insert(@, name, get_or(@, name, << >>) \o retried_ids(jobs))]
        ELSE IF is_job_failed(jobs)
        THEN [counted EXCEPT
                !.failed_executions =
                    insert(@, name, get_or(@, name, 0) + 1)]
        ELSE counted

\* the body of `for (name, jobs) in jobs_by_name`, on the five counters
count_job(acc, name, jobs) ==
    LET counted == [acc EXCEPT !.execution_counts =
                        insert(@, name, get_or(@, name, 0) + Len(jobs))]
    IN  IF is_job_flaky(jobs)
        THEN [counted EXCEPT
                !.flaky_retries =
                    insert(@, name, get_or(@, name, 0) + Len(retried_ids(jobs))),
                !.flaky_job_links =
                    insert(@, name, get_or(@, name, << >>) \o retried_ids(jobs))]
        ELSE IF is_job_failed(jobs)
        THEN [counted EXCEPT
                !.failed_executions =
                    insert(@, name, get_or(@, name, 0) + 1),
                !.failed_job_links =
                    IF find_final(jobs) = None THEN @
                    ELSE insert(@, name, get_or(@, name, << >>)
                                         \o <<find_final(jobs)[1].id>>)]
        ELSE counted

RECURSIVE count_jobs(_, _, _)
count_jobs(acc, names, jobs_by_name) ==
    IF names = << >> THEN acc
    ELSE count_jobs(count_job(acc, Head(names), jobs_by_name[Head(names)]),
                    Tail(names), jobs_by_name)

\* the loop of calculate_job_reliability over the pipelines; each
\* jobs_by_name iterates in the order `keys` gives its names
RECURSIVE count_pipelines(_, _, _)
count_pipelines(acc, ps, keys) ==
    IF ps = << >> THEN acc
    ELSE LET jobs_by_name == group_jobs_by_name(Head(ps).jobs)
         IN  count_pipelines(
                 count_jobs(acc, restrict_order(keys, DOMAIN jobs_by_name),
                            jobs_by_name),
                 Tail(ps), keys)

compute_reliability_metrics(retry_counts, retry_job_links, failure_counts, failure_job_links, execution_counts) ==
    [name \in DOMAIN execution_counts |->
        LET total_executions  == execution_counts[name]
            flaky_retries     == get_or(retry_counts, name, 0)
            failed_executions == get_or(failure_counts, name, 0)
        IN  [total_executions  |-> total_executions,
             flakiness_rate    |-> calculate_rate(flaky_retries,
                                                  total_executions),
             flaky_retries     |-> flaky_retries,
             flaky_job_links   |-> get_or(retry_job_links, name, << >>),
             failure_rate      |-> calculate_rate(failed_executions,
                                                  total_executions),
             failed_executions |-> failed_executions,
             failed_job_links  |-> get_or(failure_job_links, name, << >>)]]

\* calculate_job_reliability looking at the first pipeline only
calculate_job_reliability_of_first(ps, keys) ==
    LET counted == count_pipelines(
                       [execution_counts  |-> NoMap,
                        flaky_retries     |-> NoMap,
                        flaky_job_links   |-> NoMap,
                        failed_executions |-> NoMap,
                        failed_job_links  |-> NoMap],
                       IF ps = << >> THEN ps ELSE <<Head(ps)>>, keys)
    IN  compute_reliability_metrics(counted.flaky_retries,
                                    counted.flaky_job_links,
                                    counted.failed_executions,
                                    counted.failed_job_links,
                                    counted.execution_counts)

calculate_job_reliability(ps, keys) ==
    LET counted == count_pipelines(
                       [execution_counts  |-> NoMap,
                        flaky_retries     |-> NoMap,
                        flaky_job_links   |-> NoMap,
                        failed_executions |-> NoMap,
                        failed_job_links  |-> NoMap],
                       ps, keys)
    IN  compute_reliability_metrics(counted.flaky_retries,
                                    counted.flaky_job_links,
                                    counted.failed_executions,
                                    counted.failed_job_links,
                                    counted.execution_counts)

\* result.sort_by(|a, b| cmp_f64(&b.avg_duration, &a.avg_duration)): stable
RECURSIVE insert_by_duration(_, _)
insert_by_duration(sorted, x) ==
    IF sorted = << >> THEN <<x>>
    ELSE IF f64_lt(Head(sorted).avg_duration_seconds, x.avg_duration_seconds)
    THEN <<x>> \o sorted
    ELSE <<Head(sorted)>> \o insert_by_duration(Tail(sorted), x)

RECURSIVE sort_by_duration(_, _)
sort_by_duration(items, acc) ==
    IF items = << >> THEN acc
    ELSE sort_by_duration(Tail(items), insert_by_duration(acc, Head(items)))

\* create_predecessor_job over the names, those without an average dropped
RECURSIVE create_predecessor_jobs(_, _)
create_predecessor_jobs(names, avg_durations) ==
    IF names = << >> THEN << >>
    ELSE (IF Head(names) \in DOMAIN avg_durations
          THEN <<[name |-> Head(names),
                  avg_duration_seconds |-> avg_durations[Head(names)]]>>
          ELSE << >>)
         \o create_predecessor_jobs(Tail(names), avg_durations)

\* aggregate_predecessors, the HashSet of names iterating as `keys` has them
aggregate_predecessors(all_predecessor_names, avg_durations, keys) ==
    IF all_predecessor_names = << >> THEN << >>
    ELSE
      LET predecessor_names ==
            UNION {{all_predecessor_names[i][k] :
                       k \in 1..Len(all_predecessor_names[i])} :
                   i \in 1..Len(all_predecessor_names)}
      IN  sort_by_duration(
              create_predecessor_jobs(restrict_order(keys, predecessor_names),
                                      avg_durations),
              << >>)

build_job_metrics(name, data, avg_durations, reliability_data, keys) ==
    LET known == name \in DOMAIN reliability_data
        r     == reliability_data[name]
    IN  [name |-> name,
         avg_duration_seconds |-> get_or(avg_durations, name, f64_zero),
         avg_time_to_feedback_seconds |-> compute_mean(data.total_durations),
         predecessors |->
             aggregate_predecessors(data.all_predecessor_names, avg_durations,
                                    keys),
         flakiness_rate |-> IF known THEN r.flakiness_rate ELSE f64_zero,
         flaky_retries |->
             IF known THEN [count |-> r.flaky_retries,
                            links |-> r.flaky_job_links]
             ELSE empty_job_count,
         failed_executions |->
             IF known THEN [count |-> r.failed_executions,
                            links |-> r.failed_job_links]
             ELSE empty_job_count,
         failure_rate |-> IF known THEN r.failure_rate ELSE f64_zero,
         total_executions |-> IF known THEN r.total_executions ELSE 0]

\* jobs.sort_by(|a, b| cmp_f64(&b.feedback, &a.feedback)): stable
RECURSIVE insert_by_mean_feedback(_, _)
insert_by_mean_feedback(sorted, x) ==
    IF sorted = << >> THEN <<x>>
    ELSE IF f64_lt(Head(sorted).avg_time_to_feedback_seconds,
                   x.avg_time_to_feedback_seconds)
    THEN <<x>> \o sorted
    ELSE <<Head(sorted)>> \o insert_by_mean_feedback(Tail(sorted), x)

RECURSIVE sort_by_mean_feedback(_, _)
sort_by_mean_feedback(items, acc) ==
    IF items = << >> THEN acc
    ELSE sort_by_mean_feedback(Tail(items),
                               insert_by_mean_feedback(acc, Head(items)))

\* the JobMetrics of `name` in each pipeline's metrics that has one
RECURSIVE metrics_named(_, _)
metrics_named(per_pipeline_metrics, name) ==
    IF per_pipeline_metrics = << >> THEN << >>
    ELSE LET m == Head(per_pipeline_metrics)
         IN  [k \in 1..Cardinality({i \in 1..Len(m) : m[i].name = name}) |->
                 m[CHOOSE i \in 1..Len(m) : m[i].name = name]]
             \o metrics_named(Tail(per_pipeline_metrics), name)

\* first_feedback_times with max_by for min_by: the slowest feedback of
\* each pipeline that has a job
RECURSIVE last_feedback_times(_)
last_feedback_times(per_pipeline_metrics) ==
    IF per_pipeline_metrics = << >> THEN << >>
    ELSE LET m == Head(per_pipeline_metrics)
         IN  (IF m = << >> THEN << >>
              ELSE <<CHOOSE t \in {m[i].avg_time_to_feedback_seconds :
                                      i \in 1..Len(m)} :
                        \A i \in 1..Len(m) :
                            t >= m[i].avg_time_to_feedback_seconds>>)
             \o last_feedback_times(Tail(per_pipeline_metrics))

\* the fastest feedback of each pipeline that has a job
RECURSIVE first_feedback_times(_)
first_feedback_times(per_pipeline_metrics) ==
    IF per_pipeline_metrics = << >> THEN << >>
    ELSE LET m == Head(per_pipeline_metrics)
         IN  (IF m = << >> THEN << >>
              ELSE <<CHOOSE t \in {m[i].avg_time_to_feedback_seconds :
                                      i \in 1..Len(m)} :
                        \A i \in 1..Len(m) :
                            t <= m[i].avg_time_to_feedback_seconds>>)
             \o first_feedback_times(Tail(per_pipeline_metrics))

\* aggregate_job_metrics; every map and set of job names iterates in the
\* order `keys` gives its names
aggregate_job_metrics(successful_pipelines, all_pipelines, keys) ==
    IF successful_pipelines = << >>
    THEN [jobs |-> << >>, avg_time_to_feedback |-> f64_zero]
    ELSE
      LET per_pipeline_metrics ==
            [i \in 1..Len(successful_pipelines) |->
               LET p == successful_pipelines[i]
               IN  calculate_job_metrics(
                       p, restrict_order(keys, {p.jobs[k].name :
                                                   k \in 1..Len(p.jobs)}))]
          names ==
            UNION {{per_pipeline_metrics[i][k].name :
                       k \in 1..Len(per_pipeline_metrics[i])} :
                   i \in 1..Len(per_pipeline_metrics)}
          job_data ==
            [name \in names |->
               LET found == metrics_named(per_pipeline_metrics, name)
               IN  [durations |->
                        [k \in 1..Len(found) |-> found[k].avg_duration_seconds],
                    total_durations |->
                        [k \in 1..Len(found) |->
                            found[k].avg_time_to_feedback_seconds],
                    all_predecessor_names |->
                        [k \in 1..Len(found) |->
                            [q \in 1..Len(found[k].predecessors) |->
                                found[k].predecessors[q].name]]]]
          avg_durations ==
            [name \in names |-> compute_mean(job_data[name].durations)]
          reliability_data == calculate_job_reliability(all_pipelines, keys)
          order == restrict_order(keys, names)
          jobs  == [i \in 1..Len(order) |->
                      build_job_metrics(order[i], job_data[order[i]],
                                        avg_durations, reliability_data, keys)]
      IN  [jobs |-> sort_by_mean_feedback(jobs, << >>),
           avg_time_to_feedback |->
               compute_mean(first_feedback_times(per_pipeline_metrics))]

\* calculate_type_metrics with the reliability of the jobs taken over the
\* successful pipelines only
calculate_type_metrics_of_successful(ps, percentage, keys) ==
    LET successful == filter_status(ps, "success")
        failed     == filter_status(ps, "failed")
        aggregated == aggregate_job_metrics(successful, successful, keys)
    IN  [percentage |-> percentage,
         total_pipelines |-> Len(ps),
         successful_pipelines |-> to_pipeline_links(successful),
         failed_pipelines |-> to_pipeline_links(failed),
         success_rate |-> calculate_success_rate(Len(successful), Len(ps)),
         avg_duration_seconds |-> calculate_avg_duration(successful),
         avg_time_to_feedback_seconds |-> aggregated.avg_time_to_feedback,
         jobs |-> aggregated.jobs]

\* calculate_type_metrics
calculate_type_metrics(ps, percentage, keys) ==
    LET successful == filter_status(ps, "success")
        failed     == filter_status(ps, "failed")
        aggregated == aggregate_job_metrics(successful, ps, keys)
    IN  [percentage |-> percentage,
         total_pipelines |-> Len(ps),
         successful_pipelines |-> to_pipeline_links(successful),
         failed_pipelines |-> to_pipeline_links(failed),
         success_rate |-> calculate_success_rate(Len(successful), Len(ps)),
         avg_duration_seconds |-> calculate_avg_duration(successful),
         avg_time_to_feedback_seconds |-> aggregated.avg_time_to_feedback,
         jobs |-> aggregated.jobs]

(***************************************************************************)
(* Clustering: pipeline_types.rs.                                          *)
(***************************************************************************)
VARIABLES
    pipelines,            \* the input list of GitLabPipeline
    min_type_percentage,  \* u8
    clusters,             \* the `clusters` map once the loop has run
    pipeline_types,       \* the Vec<PipelineType> returned
    cluster_pc            \* "input", "grouped"

cluster_vars == <<pipelines, min_type_percentage, clusters, pipeline_types,
                  cluster_pc>>

\* BTreeSet::insert into the sorted, duplicate-free contents
RECURSIVE btree_insert(_, _)
btree_insert(sorted, name) ==
    IF sorted = << >> THEN <<name>>
    ELSE IF Head(sorted) = name THEN sorted
    ELSE IF str_lt(name, Head(sorted)) THEN <<name>> \o sorted
    ELSE <<Head(sorted)>> \o btree_insert(Tail(sorted), name)

RECURSIVE collect_btree(_, _)
collect_btree(jobs, acc) ==
    IF jobs = << >> THEN acc
    ELSE collect_btree(Tail(jobs), btree_insert(acc, Head(jobs).name))

\* extract_job_signature collecting into a sorted Vec that keeps duplicates
RECURSIVE sorted_insert_dup(_, _)
sorted_insert_dup(sorted, name) ==
    IF sorted = << >> THEN <<name>>
    ELSE IF str_lt(name, Head(sorted)) THEN <<name>> \o sorted
    ELSE <<Head(sorted)>> \o sorted_insert_dup(Tail(sorted), name)

RECURSIVE collect_sorted_dup(_, _)
collect_sorted_dup(jobs, acc) ==
    IF jobs = << >> THEN acc
    ELSE collect_sorted_dup(Tail(jobs), sorted_insert_dup(acc, Head(jobs).name))

extract_job_signature_keeping_duplicates(p) ==
    collect_sorted_dup(p.jobs, << >>)

\* the job names collected into a BTreeSet and read back in order
extract_job_signature(p) == collect_btree(p.jobs, << >>)

\* the loop of group_pipeline_types with insert(sig, vec![pipeline]) in
\* place of entry(sig).or_default().push(pipeline)
RECURSIVE build_clusters_overwriting(_, _, _)
build_clusters_overwriting(ps, i, acc) ==
    IF i > Len(ps) THEN acc
    ELSE LET job_signature == extract_job_signature_keeping_duplicates(ps[i])
         IN  build_clusters_overwriting(ps, i + 1,
                 [k \in DOMAIN acc \cup {job_signature} |->
                     IF k = job_signature THEN <<ps[i]>> ELSE acc[k]])

\* the loop of group_pipeline_types over pipelines[i..]: the map from
\* signature to the pipelines pushed under it, in input order
RECURSIVE build_clusters(_, _, _)
build_clusters(ps, i, acc) ==
    IF i > Len(ps) THEN acc
    ELSE LET job_signature == extract_job_signature(ps[i])
             entry == IF job_signature \in DOMAIN acc
                      THEN acc[job_signature] ELSE << >>
         IN  build_clusters(ps, i + 1,
                 [k \in DOMAIN acc \cup {job_signature} |->
                     IF k = job_signature THEN Append(entry, ps[i])
                     ELSE acc[k]])

EmptyMap == [k \in {} |-> << >>]

\* (count as f64 / total_pipelines.max(1) as f64) * 100.0
percentage_of(count, total_pipelines) ==
    f64_mul(f64_div(count, IF total_pipelines >= 1 THEN total_pipelines ELSE 1),
            100)

any(seq, P(_)) == \E i \in 1..Len(seq) : P(seq[i])

\* the label of create_pipeline_type without to_lowercase
generate_label_case_sensitive(job_names) ==
    IF any(job_names, LAMBDA j : contains(j, KwProd))
    THEN "Production Pipeline"
    ELSE IF any(job_names,
                LAMBDA j : \/ contains(j, KwStaging)
                           \/ contains(j, KwDev)
                           \/ contains(j, KwTest)
                           \/ contains(j, KwQa))
    THEN "Development Pipeline"
    ELSE "Unknown Pipeline"

\* the label of create_pipeline_type
generate_label(job_names) ==
    IF any(job_names, LAMBDA j : contains(to_lowercase(j), KwProd))
    THEN "Production Pipeline"
    ELSE IF any(job_names,
                LAMBDA j : LET lower == to_lowercase(j)
                           IN  \/ contains(lower, KwStaging)
                               \/ contains(lower, KwDev)
                               \/ contains(lower, KwTest)
                               \/ contains(lower, KwQa))
    THEN "Development Pipeline"
    ELSE "Unknown Pipeline"

RECURSIVE ids_with_status(_, _)
ids_with_status(ps, status) ==
    IF ps = << >> THEN << >>
    ELSE (IF Head(ps).status = status THEN <<Head(ps).id>> ELSE << >>)
         \o ids_with_status(Tail(ps), status)

\* create_pipeline_type with the counts of calculate_type_metrics
create_pipeline_type(job_names, cluster_pipelines, total_pipelines) ==
    [label |-> generate_label(job_names),
     metrics |->
       [percentage |-> percentage_of(Len(cluster_pipelines), total_pipelines),
        total_pipelines |-> Len(cluster_pipelines),
        successful_pipelines |-> ids_with_status(cluster_pipelines, "success"),
        failed_pipelines |-> ids_with_status(cluster_pipelines, "failed")]]

\* .filter(|pt| pt.metrics.percentage >= f64::from(min_type_percentage))
RECURSIVE filter_types(_, _)
filter_types(types, min) ==
    IF types = << >> THEN << >>
    ELSE (IF f64_ge(Head(types).metrics.percentage, min)
          THEN <<Head(types)>> ELSE << >>)
         \o filter_types(Tail(types), min)

\* sort_by(|a, b| b.total_pipelines.cmp(&a.total_pipelines)): stable,
\* largest first
RECURSIVE sort_insert(_, _)
sort_insert(sorted, pt) ==
    IF sorted = << >> THEN <<pt>>
    ELSE IF Head(sorted).metrics.total_pipelines >= pt.metrics.total_pipelines
         THEN <<Head(sorted)>> \o sort_insert(Tail(sorted), pt)
         ELSE <<pt>> \o sorted

RECURSIVE sort_types(_, _)
sort_types(types, acc) ==
    IF types = << >> THEN acc
    ELSE sort_types(Tail(types), sort_insert(acc, Head(types)))

\* group_pipeline_types, the map being iterated in `order`
types_in_order(map, order, total_pipelines, min) ==
    sort_types(
        filter_types(
            [i \in 1..Len(order) |->
                create_pipeline_type(order[i], map[order[i]], total_pipelines)],
            min),
        << >>)

group_pipeline_types ==
    /\ cluster_pc = "input"
    /\ LET map == build_clusters(pipelines, 1, EmptyMap)
       IN  /\ clusters' = map
           /\ \E order \in Orders(DOMAIN map) :
                pipeline_types' =
                    types_in_order(map, order, Len(pipelines),
                                   min_type_percentage)
    /\ cluster_pc' = "grouped"
    /\ UNCHANGED <<pipelines, min_type_percentage>>


(***************************************************************************)
(* Inputs of the clustering runs.                                          *)
(***************************************************************************)
\* "lint", "Test", "QA", "dev", "PROD", "staging"
Lint    == <<108, 105, 110, 116>>
Test    == <<84, 101, 115, 116>>
Qa      == <<81, 65>>
Dev     == <<100, 101, 118>>
Prod    == <<80, 82, 79, 68>>
Staging == <<115, 116, 97, 103, 105, 110, 103>>

\* A GitLabJob of types.rs.
GitLabJob(name, stage, duration, status, retried, needs) ==
    [name |-> name, stage |-> stage, duration |-> duration,
     status |-> status, retried |-> retried, needs |-> needs]

Final(name) == GitLabJob(name, "test", 1, "SUCCESS", FALSE, Some(<< >>))
Retried(name) == GitLabJob(name, "test", 1, "FAILED", TRUE, Some(<< >>))

\* A GitLabPipeline of types.rs; the id is given when the list is built.
Template(status, jobs) == [status |-> status, jobs |-> jobs]

Templates ==
    {Template("success", <<Final(Lint)>>),
     Template("failed",  <<Retried(Lint), Final(Lint)>>),
     Template("success", <<Final(Test), Final(Lint)>>),
     Template("failed",  <<Final(Lint), Final(Test)>>),
     Template("success", <<Final(Qa)>>),
     Template("success", <<Final(Prod), Final(Test)>>),
     Template("failed",  <<Final(Dev)>>),
     Template("success", << >>),
     Template("success", <<Final(Staging)>>)}

GitLabPipeline(id, template) ==
    [id |-> id, status |-> template.status, duration |-> 60,
     stages |-> <<"test">>,
     jobs |-> [k \in 1..Len(template.jobs) |->
                 [id       |-> <<id, k>>,
                  name     |-> template.jobs[k].name,
                  stage    |-> template.jobs[k].stage,
                  duration |-> template.jobs[k].duration,
                  status   |-> template.jobs[k].status,
                  retried  |-> template.jobs[k].retried,
                  needs    |-> template.jobs[k].needs]]]

\* lists of at most MaxPipelines pipelines, any template at any place
MaxPipelines == 3

\* corpora of two signatures, up to MaxShareA pipelines of the one followed
\* by up to MaxShareB of the other
MaxShareA == 29
MaxShareB == 21
ShareA == Template("success", <<Final(Lint), Final(Test)>>)
ShareB == Template("failed", <<Final(Lint)>>)

Percentages == {0, 10, 25, 50, 58, 100}

ClusterIdle ==
    /\ pipelines = << >>
    /\ min_type_percentage = 0
    /\ clusters = EmptyMap
    /\ pipeline_types = << >>
    /\ cluster_pc = "idle"

ClusterInit ==
    /\ \/ \E n \in 0..MaxPipelines :
            \E ts \in [1..n -> Templates] :
                pipelines = [i \in 1..n |-> GitLabPipeline(i, ts[i])]
       \/ \E a \in 0..MaxShareA, b \in 0..MaxShareB :
            pipelines = [i \in 1..(a + b) |->
                            GitLabPipeline(i, IF i <= a THEN ShareA ELSE ShareB)]
    /\ min_type_percentage \in Percentages
    /\ clusters = EmptyMap
    /\ pipeline_types = << >>
    /\ cluster_pc = "input"

ClusterNext == group_pipeline_types

(***************************************************************************)
(* Type metrics of one cluster: type_metrics.rs applied to bounded clusters. *)
(***************************************************************************)
VARIABLES
    type_pipelines,    \* the pipelines of one cluster
    reliability_data,  \* what calculate_job_reliability returned
    type_metrics,      \* the TypeMetrics returned
    metrics_pc         \* "idle", "input", "done"

metrics_vars == <<type_pipelines, reliability_data, type_metrics, metrics_pc>>

NamesOf(ps) ==
    UNION {{ps[i].jobs[k].name : k \in 1..Len(ps[i].jobs)} : i \in 1..Len(ps)}

\* calculate_type_metrics on one cluster, the maps of job names iterating
\* in an order of their own
run_calculate_type_metrics ==
    /\ metrics_pc = "input"
    /\ \E keys \in Orders(NamesOf(type_pipelines)) :
          /\ reliability_data' = calculate_job_reliability(type_pipelines, keys)
          /\ type_metrics' =
                calculate_type_metrics(
                    type_pipelines,
                    percentage_of(Len(type_pipelines), Len(type_pipelines)),
                    keys)
    /\ metrics_pc' = "done"
    /\ UNCHANGED type_pipelines

\* Inputs: clusters of at most MaxClusterSize pipelines with the same job
\* names, "a" alone or "a" and "b", or with no job at all; the records of
\* "a" run through the outcomes of a job with and without retries.
MaxClusterSize == 2

JobRecord(name, duration, status, retried, needs) ==
    [name |-> name, stage |-> "test", duration |-> duration,
     status |-> status, retried |-> retried, needs |-> needs]

FinalA(status) == JobRecord("a", 2, status, FALSE, Some(<< >>))
RetriedA(status) == JobRecord("a", 3, status, TRUE, Some(<< >>))

RecordsOfA ==
    {<<FinalA("SUCCESS")>>,
     <<FinalA("FAILED")>>,
     <<RetriedA("FAILED"), FinalA("SUCCESS")>>,
     <<FinalA("SUCCESS"), RetriedA("FAILED")>>,
     <<RetriedA("FAILED"), FinalA("FAILED")>>,
     <<RetriedA("FAILED")>>,
     <<RetriedA("FAILED"), RetriedA("SUCCESS"), FinalA("SUCCESS")>>}

RecordsOfB ==
    {<<JobRecord("b", 1, "SUCCESS", FALSE, Some(<<"a">>))>>,
     <<JobRecord("b", 2, "FAILED", TRUE, None),
       JobRecord("b", 2, "SUCCESS", FALSE, None)>>}

JobListsOf(names) ==
    IF names = {} THEN {<< >>}
    ELSE IF names = {"a"} THEN RecordsOfA
    ELSE {ra \o rb : ra \in RecordsOfA, rb \in RecordsOfB}

\* the pipeline at place i of a cluster, its jobs given their ids
ClusterPipeline(i, status, jobs) ==
    [id |-> i, status |-> status, duration |-> 10 * i,
     stages |-> <<"build", "test">>,
     jobs |-> [k \in 1..Len(jobs) |->
                 [id |-> <<i, k>>, name |-> jobs[k].name,
                  stage |-> jobs[k].stage, duration |-> jobs[k].duration,
                  status |-> jobs[k].status, retried |-> jobs[k].retried,
                  needs |-> jobs[k].needs]]]

RECURSIVE ClustersOf(_, _)
ClustersOf(names, n) ==
    IF n = 0 THEN {<< >>}
    ELSE {ps \o <<ClusterPipeline(n, st, js)>> :
             ps \in ClustersOf(names, n - 1),
             st \in {"success", "failed"},
             js \in JobListsOf(names) \cup {<< >>}}

MetricsIdle ==
    /\ type_pipelines = << >>
    /\ reliability_data = NoMap
    /\ type_metrics = << >>
    /\ metrics_pc = "idle"

MetricsInit ==
    /\ \E names \in {{}, {"a"}, {"a", "b"}}, n \in 0..MaxClusterSize :
          type_pipelines \in ClustersOf(names, n)
    /\ reliability_data = NoMap
    /\ type_metrics = << >>
    /\ metrics_pc = "input"

MetricsNext == run_calculate_type_metrics

(***************************************************************************)
(* Ingestion: GitLabClient::fetch_pipelines and                            *)
(* GitLabProvider::fetch_pipelines / collect_insights.                     *)
(***************************************************************************)
VARIABLES
    limit,          \* the `limit` argument of collect_insights
    job_pages,      \* the remote: pages of jobs it holds per pipeline
    stream_pc,      \* per status stream: "loop", "await", "ok", "err"
    all_pipelines,  \* per status stream: the accumulated nodes
    cursor,         \* per status stream: the `cursor` local
    request,        \* per status stream: the variables of the last request
    stream_reqs,    \* per status stream: requests issued so far
    main_pc,        \* "client_fetch", "join_all", "returned"
    pipeline_nodes, \* what client.fetch_pipelines returned
    polled,         \* futures join_all has polled for the first time
    task_pc,        \* per job-fetch task: "pending","await","ok","err","none"
    job_reqs,       \* per job-fetch task: requests issued so far
    outcome         \* what collect_insights returned

ingest_vars == <<limit, job_pages, stream_pc, all_pipelines, cursor, request,
                 stream_reqs, main_pc, pipeline_nodes, polled, task_pc,
                 job_reqs, outcome>>

\* tokio::join! polls the SUCCESS stream first, then the FAILED stream
Streams == <<"SUCCESS", "FAILED">>
StreamSet == {Streams[i] : i \in 1..2}

\* each stream capped at the whole limit
half_limit_uncapped == limit

\* the halves rounded up, so that an odd limit can be filled
half_limit_rounded_up == (limit + 1) \div 2

half_limit == limit \div 2

\* A pipeline summary as the remote returns it; duration is Option<i64>.
Node(status, id, duration) == [status |-> status, id |-> id, duration |-> duration]
Durations == {None, Some(7)}

\* All sequences of length n of nodes of stream s numbered from `from`.
RECURSIVE Pages(_, _, _)
Pages(s, from, n) ==
    IF n = 0 THEN {<< >>}
    ELSE {<<Node(s, from, d)>> \o rest :
             d \in Durations, rest \in Pages(s, from + 1, n - 1)}

NoOutcome == [kind |-> "none"]
Failure(e) == [kind |-> "err", error |-> e]

IngestInit ==
    /\ limit \in 0..MaxLimit
    /\ job_pages \in 1..MaxJobPages
    /\ stream_pc = [s \in StreamSet |-> "loop"]
    /\ all_pipelines = [s \in StreamSet |-> << >>]
    /\ cursor = [s \in StreamSet |-> None]
    /\ request = [s \in StreamSet |-> None]
    /\ stream_reqs = [s \in StreamSet |-> 0]
    /\ main_pc = "client_fetch"
    /\ pipeline_nodes = << >>
    /\ polled = 0
    /\ task_pc = << >>
    /\ job_reqs = << >>
    /\ outcome = NoOutcome

\* fetch_pipelines_with_status, from the top of the loop to request.send():
\* leaves the loop when nothing remains, else sends the next request.
StreamLoop(s) ==
    /\ main_pc = "client_fetch"
    /\ stream_pc[s] = "loop"
    /\ LET remaining == saturating_sub(half_limit, Len(all_pipelines[s]))
           fetch_count == Min(remaining, PAGE_SIZE)
       IN  IF remaining = 0
           THEN /\ stream_pc' = [stream_pc EXCEPT ![s] = "ok"]
                /\ all_pipelines' = [all_pipelines EXCEPT
                                       ![s] = truncate(@, half_limit)]
                /\ UNCHANGED <<request, stream_reqs>>
           ELSE /\ stream_reqs[s] < MaxRequests
                /\ stream_pc' = [stream_pc EXCEPT ![s] = "await"]
                /\ request' = [request EXCEPT
                                 ![s] = Some([first |-> fetch_count,
                                              after |-> cursor[s],
                                              status |-> s])]
                /\ stream_reqs' = [stream_reqs EXCEPT ![s] = @ + 1]
                /\ UNCHANGED all_pipelines
    /\ UNCHANGED <<limit, job_pages, cursor, main_pc, pipeline_nodes, polled,
                   task_pc, job_reqs, outcome>>

\* The request fails (transport, HTTP status, GraphQL errors, a missing
\* field): `?` or `return Err` leaves fetch_pipelines_with_status.
StreamError(s) ==
    /\ main_pc = "client_fetch"
    /\ stream_pc[s] = "await"
    /\ stream_pc' = [stream_pc EXCEPT ![s] = "err"]
    /\ UNCHANGED <<limit, job_pages, all_pipelines, cursor, request,
                   stream_reqs, main_pc, pipeline_nodes, polled, task_pc,
                   job_reqs, outcome>>

\* A page arrives: extend, then the three exits of the loop, and the
\* truncate(limit) after it.
StreamPage(s) ==
    /\ main_pc = "client_fetch"
    /\ stream_pc[s] = "await"
    /\ \E n \in 0..(request[s][1].first + Overshoot),
          has_next_page \in BOOLEAN,
          end_cursor \in {None, Some(stream_reqs[s])} :
         \E nodes \in Pages(s, Len(all_pipelines[s]) + 1, n) :
           LET extended == all_pipelines[s] \o nodes
               leave == \/ ~has_next_page
                        \/ Len(extended) >= half_limit
                        \/ end_cursor = None
           IN  /\ all_pipelines' = [all_pipelines EXCEPT
                    ![s] = IF leave THEN truncate(extended, half_limit)
                                    ELSE extended]
               /\ cursor' = [cursor EXCEPT
                    ![s] = IF ~has_next_page \/ Len(extended) >= half_limit
                           THEN @ ELSE end_cursor]
               /\ stream_pc' = [stream_pc EXCEPT
                    ![s] = IF leave THEN "ok" ELSE "loop"]
    /\ UNCHANGED <<limit, job_pages, request, stream_reqs, main_pc,
                   pipeline_nodes, polled, task_pc, job_reqs, outcome>>

StreamDone(s) == stream_pc[s] \in {"ok", "err"}

\* fetch_pipelines with tokio::try_join! in place of tokio::join!: the first
\* error returns at once, the other stream is dropped where it stands
JoinStreams_try_join ==
    /\ main_pc = "client_fetch"
    /\ \/ \E s \in StreamSet : stream_pc[s] = "err"
       \/ \A s \in StreamSet : stream_pc[s] = "ok"
    /\ IF \E s \in StreamSet : stream_pc[s] = "err"
       THEN /\ outcome' = [kind |-> "err",
                           error |-> <<"pipelines",
                                       CHOOSE s \in StreamSet :
                                           stream_pc[s] = "err">>]
            /\ main_pc' = "returned"
            /\ UNCHANGED <<pipeline_nodes, task_pc, job_reqs>>
       ELSE /\ pipeline_nodes' =
                 truncate(all_pipelines["SUCCESS"] \o all_pipelines["FAILED"],
                          limit)
            /\ task_pc' = [i \in 1..Len(pipeline_nodes') |-> "pending"]
            /\ job_reqs' = [i \in 1..Len(pipeline_nodes') |-> 0]
            /\ main_pc' = "join_all"
            /\ UNCHANGED outcome
    /\ UNCHANGED <<limit, job_pages, stream_pc, all_pipelines, cursor,
                   request, stream_reqs, polled>>

\* GitLabClient::fetch_pipelines after tokio::join! has both results, and
\* the `?` of GitLabProvider::fetch_pipelines and of collect_insights.
JoinStreams ==
    /\ main_pc = "client_fetch"
    /\ \A s \in StreamSet : StreamDone(s)
    /\ IF stream_pc["SUCCESS"] = "err"
       THEN /\ outcome' = Failure(<<"pipelines", "SUCCESS">>)
            /\ main_pc' = "returned"
            /\ UNCHANGED <<pipeline_nodes, task_pc, job_reqs>>
       ELSE IF stream_pc["FAILED"] = "err"
       THEN /\ outcome' = Failure(<<"pipelines", "FAILED">>)
            /\ main_pc' = "returned"
            /\ UNCHANGED <<pipeline_nodes, task_pc, job_reqs>>
       ELSE /\ pipeline_nodes' =
                 truncate(all_pipelines["SUCCESS"] \o all_pipelines["FAILED"],
                          limit)
            /\ task_pc' = [i \in 1..Len(pipeline_nodes') |-> "pending"]
            /\ job_reqs' = [i \in 1..Len(pipeline_nodes') |-> 0]
            /\ main_pc' = "join_all"
            /\ UNCHANGED outcome
    /\ UNCHANGED <<limit, job_pages, stream_pc, all_pipelines, cursor,
                   request, stream_reqs, polled>>


(***************************************************************************)
(* The fan-out of GitLabProvider::fetch_pipelines: one                     *)
(* transform_pipeline_with_jobs future per node, awaited by join_all.      *)
(***************************************************************************)
Tasks == 1..Len(pipeline_nodes)

\* the first poll with transform_pipeline_with_jobs fetching the jobs of
\* every node, with or without duration
PollTask_fetching_all ==
    /\ main_pc = "join_all"
    /\ polled < Len(pipeline_nodes)
    /\ task_pc' = [task_pc EXCEPT ![polled + 1] = "await"]
    /\ job_reqs' = [job_reqs EXCEPT ![polled + 1] = 1]
    /\ polled' = polled + 1
    /\ UNCHANGED <<limit, job_pages, stream_pc, all_pipelines, cursor,
                   request, stream_reqs, main_pc, pipeline_nodes, outcome>>

\* join_all's first poll reaches the futures in order; each runs up to its
\* first await: a node without duration is Ok(None) at once, any other
\* sends the first request of fetch_pipeline_jobs.
PollTask ==
    /\ main_pc = "join_all"
    /\ polled < Len(pipeline_nodes)
    /\ LET i == polled + 1
       IN  IF pipeline_nodes[i].duration = None
           THEN /\ task_pc' = [task_pc EXCEPT ![i] = "none"]
                /\ UNCHANGED job_reqs
           ELSE /\ task_pc' = [task_pc EXCEPT ![i] = "await"]
                /\ job_reqs' = [job_reqs EXCEPT ![i] = 1]
    /\ polled' = polled + 1
    /\ UNCHANGED <<limit, job_pages, stream_pc, all_pipelines, cursor,
                   request, stream_reqs, main_pc, pipeline_nodes, outcome>>

\* fetch_pipeline_jobs: the request fails and `?` returns the error.
JobsError(i) ==
    /\ main_pc = "join_all"
    /\ polled = Len(pipeline_nodes)
    /\ task_pc[i] = "await"
    /\ task_pc' = [task_pc EXCEPT ![i] = "err"]
    /\ UNCHANGED <<limit, job_pages, stream_pc, all_pipelines, cursor,
                   request, stream_reqs, main_pc, pipeline_nodes, polled,
                   job_reqs, outcome>>

\* fetch_pipeline_jobs: a page of jobs arrives; the loop ends when the
\* remote reports no next page or gives no cursor, else it sends the next
\* request.  The remote holds job_pages pages for the pipeline.
JobsPage(i) ==
    /\ main_pc = "join_all"
    /\ polled = Len(pipeline_nodes)
    /\ task_pc[i] = "await"
    /\ \E has_next_page \in {job_reqs[i] < job_pages},
          end_cursor \in {None, Some(job_reqs[i])} :
         IF ~has_next_page \/ end_cursor = None
         THEN /\ task_pc' = [task_pc EXCEPT ![i] = "ok"]
              /\ UNCHANGED job_reqs
         ELSE /\ job_reqs' = [job_reqs EXCEPT ![i] = @ + 1]
              /\ UNCHANGED task_pc
    /\ UNCHANGED <<limit, job_pages, stream_pc, all_pipelines, cursor,
                   request, stream_reqs, main_pc, pipeline_nodes, polled,
                   outcome>>

TaskDone(i) == task_pc[i] \in {"ok", "err", "none"}

\* results.into_iter().filter_map(Result::transpose): Ok(None) is dropped,
\* Ok(Some(p)) and Err(e) are kept, in the order of the nodes.
RECURSIVE transposed(_)
transposed(i) ==
    IF i > Len(pipeline_nodes) THEN << >>
    ELSE (IF task_pc[i] = "none" THEN << >> ELSE <<i>>) \o transposed(i + 1)

\* filter_map(Result::ok) in place of the collect into a Result: the
\* failed fetches are dropped and the rest is kept
RECURSIVE collect_dropping_errors(_)
collect_dropping_errors(kept) ==
    IF kept = << >> THEN [kind |-> "ok", pipelines |-> << >>]
    ELSE LET rest == collect_dropping_errors(Tail(kept))
         IN  IF task_pc[Head(kept)] = "err" THEN rest
             ELSE [kind |-> "ok",
                   pipelines |->
                     <<pipeline_nodes[Head(kept)]>> \o rest.pipelines]

\* .collect::<Result<Vec<_>>>(): the first Err in order, else every Ok.
RECURSIVE collect(_)
collect(kept) ==
    IF kept = << >> THEN [kind |-> "ok", pipelines |-> << >>]
    ELSE IF task_pc[Head(kept)] = "err"
         THEN Failure(<<"jobs", pipeline_nodes[Head(kept)]>>)
         ELSE LET rest == collect(Tail(kept))
              IN  IF rest.kind = "err" THEN rest
                  ELSE [kind |-> "ok",
                        pipelines |->
                          <<pipeline_nodes[Head(kept)]>> \o rest.pipelines]

\* The jobs of pipeline i as its job pages gave them: one job a page.
PageJobs == <<Lint, Test, Qa, Dev>>

transform_job_nodes(i) ==
    [k \in 1..job_reqs[i] |-> Final(PageJobs[((k - 1) % Len(PageJobs)) + 1])]

\* transform_pipeline_with_jobs for a node that has a duration
transform_pipeline_with_jobs(i) ==
    [id     |-> <<pipeline_nodes[i].status, pipeline_nodes[i].id>>,
     status |-> IF pipeline_nodes[i].status = "SUCCESS" THEN "success"
                                                        ELSE "failed",
     jobs   |-> transform_job_nodes(i)]

\* CIInsights with total_pipeline_types counting the pipelines
CIInsights_counting_pipelines(ps, types) ==
    [kind |-> "report",
     pipelines |-> ps,
     total_pipelines |-> Len(ps),
     total_pipeline_types |-> Len(ps),
     pipeline_types |-> types]

\* CIInsights as collect_insights builds it from the pipelines and their
\* types.
CIInsights(ps, types) ==
    [kind |-> "report",
     pipelines |-> ps,
     total_pipelines |-> Len(ps),
     total_pipeline_types |-> Len(types),
     pipeline_types |-> types]

\* the thresholds the grouping may be given
MinTypePercentages == {0, 50}

\* join_all is ready once every future is: the collect, its `?`, and the
\* rest of collect_insights, the types being those of group_pipeline_types.
JoinAll ==
    /\ main_pc = "join_all"
    /\ polled = Len(pipeline_nodes)
    /\ \A i \in Tasks : TaskDone(i)
    /\ LET kept    == transposed(1)
           results == collect(kept)
           fetched == [k \in 1..Len(kept) |-> transform_pipeline_with_jobs(kept[k])]
           map     == build_clusters(fetched, 1, EmptyMap)
       IN  IF results.kind = "err"
           THEN outcome' = results
           ELSE \E order \in Orders(DOMAIN map),
                   threshold \in MinTypePercentages :
                  outcome' =
                      CIInsights(results.pipelines,
                                 types_in_order(map, order, Len(fetched),
                                                threshold))
    /\ main_pc' = "returned"
    /\ UNCHANGED <<limit, job_pages, stream_pc, all_pipelines, cursor,
                   request, stream_reqs, pipeline_nodes, polled, task_pc,
                   job_reqs>>

IngestNext ==
    \/ \E s \in StreamSet : StreamLoop(s)
    \/ \E s \in StreamSet : StreamError(s)
    \/ \E s \in StreamSet : StreamPage(s)
    \/ JoinStreams
    \/ PollTask
    \/ \E i \in Tasks : JobsError(i)
    \/ \E i \in Tasks : JobsPage(i)
    \/ JoinAll


(***************************************************************************)
(* One GraphQL round trip of the client: client/pipelines.rs:64-89 for the *)
(* pipelines query and 167-196 for the jobs query.  The remote answers     *)
(* with a transport outcome, an HTTP status and a body; reqwest's send()   *)
(* fails on a transport failure only, whatever the HTTP status, and its    *)
(* json() fails with a reqwest::Error when the body does not deserialize.  *)
(* A message is held as the sequence of its parts.                         *)
(***************************************************************************)
VARIABLES
    query,          \* "pipelines" or "jobs"
    http_response,  \* what the remote did with the request
    query_result,   \* what the round trip made of it
    client_pc       \* "idle", "sent", "handled"

client_vars == <<query, http_response, query_result, client_pc>>

project_path == "group/project"
pipeline_id == "gid://gitlab/Ci::Pipeline/7"

Ok(value) == [ok |-> TRUE, kind |-> "", message |-> << >>, value |-> value]
Err(kind, message) ==
    [ok |-> FALSE, kind |-> kind, message |-> message, value |-> << >>]

\* error.rs: #[from] reqwest::Error
NetworkError(message) == Err("Network", message)
Config(message) == Err("Config", message)

\* error_messages.join(", ")
RECURSIVE join(_)
join(messages) ==
    IF messages = << >> THEN << >>
    ELSE IF Len(messages) = 1 THEN <<messages[1]>>
    ELSE <<messages[1], ", ">> \o join(Tail(messages))

\* request.send().await?
send(remote) ==
    IF remote.transport = "failed"
    THEN NetworkError(<<"error sending request">>)
    ELSE Ok(remote)

\* response.json().await?
json(response) ==
    IF ~response.body.deserializable
    THEN NetworkError(<<"error decoding response body">>)
    ELSE Ok(response.body)

\* the checks both queries make of the response body, down to the project
project_of(response_body) ==
    IF response_body.errors # None
    THEN Config(<<"GraphQL errors: ">> \o join(response_body.errors[1]))
    ELSE IF response_body.data = None
    THEN Config(<<"GraphQL response contained no data">>)
    ELSE IF response_body.data[1].project = None
    THEN Config(<<"Project '", project_path, "' not found">>)
    ELSE Ok(response_body.data[1].project[1])

\* and_then of Result
and_then(result, f(_)) == IF result.ok THEN f(result.value) ELSE result

pipelines_of(project) ==
    IF project.pipelines = None
    THEN Config(<<"No pipeline data available for project '",
                  project_path, "'">>)
    ELSE Ok(project.pipelines[1])

jobs_of(project) ==
    IF project.pipeline = None
    THEN Config(<<"Pipeline '", pipeline_id, "' not found">>)
    ELSE IF project.pipeline[1].jobs = None
    THEN Config(<<"No job data available for pipeline '",
                  pipeline_id, "'">>)
    ELSE Ok(project.pipeline[1].jobs[1])

\* fetch_pipelines_with_status, from send() to the page of pipelines
pipelines_round_trip(remote) ==
    and_then(and_then(and_then(send(remote), json), project_of),
             pipelines_of)

\* fetch_pipeline_jobs, from send() to the page of jobs
jobs_round_trip(remote) ==
    and_then(and_then(and_then(send(remote), json), project_of), jobs_of)

handle_pipelines_response ==
    /\ client_pc = "sent"
    /\ query = "pipelines"
    /\ query_result' = pipelines_round_trip(http_response)
    /\ client_pc' = "handled"
    /\ UNCHANGED <<query, http_response>>

handle_jobs_response ==
    /\ client_pc = "sent"
    /\ query = "jobs"
    /\ query_result' = jobs_round_trip(http_response)
    /\ client_pc' = "handled"
    /\ UNCHANGED <<query, http_response>>

\* Inputs: the bodies a remote may send, each field present or missing.
Page == [nodes |-> << >>]

Body(errors, data) ==
    [deserializable |-> TRUE, errors |-> errors, data |-> data]

NotJson == [deserializable |-> FALSE, errors |-> None, data |-> None]

Project(pipelines_field, pipeline_field) ==
    [pipelines |-> pipelines_field, pipeline |-> pipeline_field]

Bodies(q) ==
    {NotJson,
     Body(Some(<<"m1">>), None),
     Body(Some(<<"m1", "m2">>), None),
     Body(None, None),
     Body(None, Some([project |-> None]))}
    \cup
    (IF q = "pipelines"
     THEN {Body(None, Some([project |-> Some(Project(None, None))])),
           Body(None, Some([project |-> Some(Project(Some(Page), None))]))}
     ELSE {Body(None, Some([project |-> Some(Project(None, None))])),
           Body(None, Some([project |->
                              Some(Project(None, Some([jobs |-> None])))])),
           Body(None, Some([project |->
                              Some(Project(None,
                                           Some([jobs |-> Some(Page)])))]))})

HttpStatuses == {200, 401, 404, 500}

Remotes(q) ==
    {[transport |-> "failed", status |-> 0, body |-> NotJson]}
    \cup {[transport |-> "ok", status |-> st, body |-> b] :
             st \in HttpStatuses, b \in Bodies(q)}

ClientIdle ==
    /\ query = ""
    /\ http_response = << >>
    /\ query_result = << >>
    /\ client_pc = "idle"

ClientInit ==
    /\ query \in {"pipelines", "jobs"}
    /\ http_response \in Remotes(query)
    /\ query_result = << >>
    /\ client_pc = "sent"

ClientNext ==
    \/ handle_pipelines_response
    \/ handle_jobs_response


(***************************************************************************)
(* auth.rs: the Token and its renderings.  A text is the sequence of its   *)
(* characters; "U+00E9" and "U+1F511" stand for one character each.        *)
(***************************************************************************)
VARIABLES
    tokens,      \* the two tokens built by Token::from
    debug_out,   \* format!("{token:?}") of each, None before it is taken
    struct_out,  \* format!("{client:?}") of an ApiClient holding each
    str_out      \* as_str() of each, None before it is taken

token_vars == <<tokens, debug_out, struct_out, str_out>>

\* impl From<&str> for Token
Token(value) == [secret |-> value]

as_str(token) == token.secret

\* #[derive(Debug)] on the tuple struct, in place of the impl
fmt_derived(token) ==
    <<"T", "o", "k", "e", "n", "(", "\"">>
    \o token.secret \o <<"\"", ")">>

\* impl std::fmt::Debug for Token
fmt(token) ==
    <<"<", "r", "e", "d", "a", "c", "t", "e", "d", ">">>

\* #[derive(Debug)] of struct ApiClient { token: Token, endpoint: String }
ApiClient_fmt(client) ==
    <<"A", "p", "i", "C", "l", "i", "e", "n", "t", " ", "{", " ", "t",
      "o", "k", "e", "n", ":", " ">>
    \o fmt(client.token)
    \o <<",", " ", "e", "n", "d", "p", "o", "i", "n", "t", ":", " ", "\"">>
    \o client.endpoint \o <<"\"", " ", "}">>

Endpoint ==
    <<"h", "t", "t", "p", "s", ":", "/", "/", "a", "p", "i", ".", "e",
      "x", "a", "m", "p", "l", "e", ".", "c", "o", "m">>

debug_tokens ==
    /\ tokens # << >>
    /\ debug_out = None
    /\ debug_out' = Some([i \in 1..2 |-> fmt(tokens[i])])
    /\ struct_out' =
          Some([i \in 1..2 |->
                  ApiClient_fmt([token |-> tokens[i], endpoint |-> Endpoint])])
    /\ UNCHANGED <<tokens, str_out>>

read_tokens ==
    /\ tokens # << >>
    /\ str_out = None
    /\ str_out' = Some([i \in 1..2 |-> as_str(tokens[i])])
    /\ UNCHANGED <<tokens, debug_out, struct_out>>

\* Inputs: secrets of at most MaxSecretLen characters, some of them not
\* ASCII, one of them a character of the rendering itself.
MaxSecretLen == 3
SecretChars == {"<", "U+00E9", "U+1F511"}

RECURSIVE Texts(_, _)
Texts(chars, n) ==
    IF n = 0 THEN {<< >>}
    ELSE Texts(chars, n - 1)
         \cup {t \o <<c>> : t \in Texts(chars, n - 1), c \in chars}

TokenIdle ==
    /\ tokens = << >>
    /\ debug_out = None
    /\ struct_out = None
    /\ str_out = None

TokenInit ==
    /\ \E a, b \in Texts(SecretChars, MaxSecretLen) :
          tokens = <<Token(a), Token(b)>>
    /\ debug_out = None
    /\ struct_out = None
    /\ str_out = None

TokenNext ==
    \/ debug_tokens
    \/ read_tokens


(***************************************************************************)
(* url_utils.rs: the links to pipelines and jobs.  A text is the sequence  *)
(* of its characters.                                                      *)
(***************************************************************************)
VARIABLES
    gid,           \* the global id to link
    site,          \* [base_url, project]
    pipeline_url,  \* pipeline_id_to_url of it, None before it is built
    job_url        \* job_id_to_url of it, None before it is built

url_vars == <<gid, site, pipeline_url, job_url>>

\* the places of `sep` in `text`
places(text, sep) == {k \in 1..Len(text) : text[k] = sep}

Max(set) == CHOOSE k \in set : \A other \in set : other <= k

\* text.split(sep): the segments from the left
RECURSIVE split(_, _)
split(text, sep) ==
    IF places(text, sep) = {} THEN <<text>>
    ELSE LET k == CHOOSE first \in places(text, sep) :
                      \A other \in places(text, sep) : first <= other
         IN  <<SubSeq(text, 1, k - 1)>>
             \o split(SubSeq(text, k + 1, Len(text)), sep)

\* text.rsplit(sep): the segments from the right
RECURSIVE rsplit(_, _)
rsplit(text, sep) ==
    IF places(text, sep) = {} THEN <<text>>
    ELSE LET k == Max(places(text, sep))
         IN  <<SubSeq(text, k + 1, Len(text))>>
             \o rsplit(SubSeq(text, 1, k - 1), sep)

\* extract_numeric_id taking the first segment: gid.split('/').next()
extract_first_segment(id) ==
    LET segments == split(id, "/")
    IN  IF segments = << >> THEN id ELSE Head(segments)

\* gid.rsplit('/').next().unwrap_or(gid)
extract_numeric_id(id) ==
    LET segments == rsplit(id, "/")
    IN  IF segments = << >> THEN id ELSE Head(segments)

\* format!("{base_url}/{project_path}/-/pipelines/{id}")
pipeline_id_to_url(base, project, id) ==
    base \o <<"/">> \o project
    \o <<"/", "-", "/", "p", "i", "p", "e", "l", "i", "n", "e", "s",
      "/">>
    \o extract_numeric_id(id)

\* format!("{base_url}/{project_path}/-/jobs/{id}")
job_id_to_url(base, project, id) ==
    base \o <<"/">> \o project
    \o <<"/", "-", "/", "j", "o", "b", "s", "/">>
    \o extract_numeric_id(id)

link_pipeline ==
    /\ site # << >>
    /\ pipeline_url = None
    /\ pipeline_url' = Some(pipeline_id_to_url(site.base_url, site.project, gid))
    /\ UNCHANGED <<gid, site, job_url>>

link_job ==
    /\ site # << >>
    /\ job_url = None
    /\ job_url' = Some(job_id_to_url(site.base_url, site.project, gid))
    /\ UNCHANGED <<gid, site, pipeline_url>>

\* Inputs: ids that end with at most MaxIdLen characters, '/' among them,
\* alone or after the prefix of a global id.
MaxIdLen == 3
IdChars == {"1", "2", "/"}

PipelineGid ==
    <<"g", "i", "d", ":", "/", "/", "g", "i", "t", "l", "a", "b",
      "/", "C", "i", ":", ":", "P", "i", "p", "e", "l", "i", "n",
      "e", "/">>

JobGid ==
    <<"g", "i", "d", ":", "/", "/", "g", "i", "t", "l", "a", "b",
      "/", "C", "i", ":", ":", "J", "o", "b", "/">>

GitLabCom ==
    <<"h", "t", "t", "p", "s", ":", "/", "/", "g", "i", "t", "l",
      "a", "b", ".", "c", "o", "m">>

GroupProject ==
    <<"g", "r", "o", "u", "p", "/", "p", "r", "o", "j", "e", "c",
      "t">>

UrlIdle ==
    /\ gid = << >>
    /\ site = << >>
    /\ pipeline_url = None
    /\ job_url = None

UrlInit ==
    /\ \E prefix \in {<< >>, PipelineGid, JobGid},
          id \in Texts(IdChars, MaxIdLen) :
          gid = prefix \o id
    /\ \E base \in {GitLabCom, <<"h">>}, project \in {GroupProject, <<"p">>} :
          site = [base_url |-> base, project |-> project]
    /\ pipeline_url = None
    /\ job_url = None

UrlNext ==
    \/ link_pipeline
    \/ link_job


(***************************************************************************)
(* group_pipeline_types with the whole of its metrics, on a list of        *)
(* pipelines and on the same pipelines in another order.                   *)
(***************************************************************************)
VARIABLES
    listing,         \* a list of pipelines
    shuffled,        \* the same pipelines in another order
    threshold,       \* min_type_percentage of both runs
    types_listing,   \* Some(the types of `listing`), None before the run
    types_shuffled   \* Some(the types of `shuffled`), None before the run

permute_vars ==
    <<listing, shuffled, threshold, types_listing, types_shuffled>>

\* create_pipeline_type with the metrics of calculate_type_metrics, the maps
\* of job names iterating in the order `keys`
create_pipeline_type_in_full(job_names, cluster_pipelines, total_pipelines, keys) ==
    [label |-> generate_label(job_names),
     metrics |->
       calculate_type_metrics(
           cluster_pipelines,
           percentage_of(Len(cluster_pipelines), total_pipelines),
           keys)]

\* the orders in which the maps of job names of each cluster may iterate:
\* one order of its job names for every signature
KeyOrders(signatures) ==
    LET names(sig) == {sig[i] : i \in 1..Len(sig)}
    IN  {keys_of \in [signatures -> UNION {Orders(names(sig)) :
                                              sig \in signatures}] :
            \A sig \in signatures : keys_of[sig] \in Orders(names(sig))}

\* group_pipeline_types, the clusters iterating in `order`
group_in_full(ps, min, order, keys_of) ==
    LET map == build_clusters(ps, 1, EmptyMap)
    IN  sort_types(
            filter_types(
                [i \in 1..Len(order) |->
                    create_pipeline_type_in_full(
                        order[i], map[order[i]], Len(ps), keys_of[order[i]])],
                min),
            << >>)

\* The types of one call are kept, those of the other call stay
keep_types(which, types) ==
    /\ types_listing' = IF which = "listing" THEN types ELSE types_listing
    /\ types_shuffled' = IF which = "listing" THEN types_shuffled ELSE types

\* One call of group_pipeline_types, on the list or on its permutation
group_types(which) ==
    LET given == IF which = "listing" THEN listing ELSE shuffled
        done  == IF which = "listing" THEN types_listing ELSE types_shuffled
    IN  /\ given # None
        /\ done = None
        /\ LET signatures == DOMAIN build_clusters(given[1], 1, EmptyMap)
           IN  \E order \in Orders(signatures),
                  keys_of \in KeyOrders(signatures) :
                 keep_types(which,
                            Some(group_in_full(given[1], threshold, order,
                                               keys_of)))
        /\ UNCHANGED <<listing, shuffled, threshold>>

\* Inputs: lists of at most MaxListed pipelines of two signatures, with
\* jobs that succeed, fail and are retried, and every order of each list.
MaxListed == 3

Broken(name) == GitLabJob(name, "test", 1, "FAILED", FALSE, Some(<< >>))

ListedTemplates ==
    {Template("success", <<Retried(Lint), Final(Lint)>>),
     Template("failed",  <<Broken(Lint)>>),
     Template("success", <<Final(Test), Final(Lint)>>)}

Shuffles(n) ==
    {f \in [1..n -> 1..n] : \A i, j \in 1..n : f[i] = f[j] => i = j}

PermuteIdle ==
    /\ listing = None
    /\ shuffled = None
    /\ threshold = 0
    /\ types_listing = None
    /\ types_shuffled = None

PermuteInit ==
    /\ \E n \in 0..MaxListed :
         \E ts \in [1..n -> ListedTemplates], f \in Shuffles(n) :
            LET ps == [i \in 1..n |-> GitLabPipeline(i, ts[i])]
            IN  /\ listing = Some(ps)
                /\ shuffled = Some([i \in 1..n |-> ps[f[i]]])
    /\ threshold \in {0, 50}
    /\ types_listing = None
    /\ types_shuffled = None

PermuteNext ==
    \E which \in {"listing", "shuffled"} : group_types(which)


(***************************************************************************)
(* fetch_pipelines_with_status on its own, with limits on both sides of    *)
(* PAGE_SIZE: every request it sends and every response it reads is kept.  *)
(***************************************************************************)
VARIABLES
    pg_limit,        \* the `limit` argument
    pg_pipelines,    \* all_pipelines: one entry per node, the number of the
                     \* request that brought it
    pg_cursor,       \* cursor: Option<String>
    sent,            \* the variables of every request sent, in order
    received,        \* what every response held, in order
    pg_pc,           \* "loop", "await", "ok", "err"
    pg_result        \* Some(the Vec returned), None before and on Err

paging_vars ==
    <<pg_limit, pg_pipelines, pg_cursor, sent, received, pg_pc, pg_result>>

\* lines 40 and 46 with two limits in one: PAGE_SIZE is not applied
uncapped_fetch_count(requested, held) == saturating_sub(requested, held)

\* let remaining = limit.saturating_sub(all_pipelines.len());
\* let fetch_count = std::cmp::min(remaining, PAGE_SIZE);
next_fetch_count(requested, held) ==
    Min(saturating_sub(requested, held), PAGE_SIZE)

\* requests the model follows before it stops
MaxPagedRequests == 4

\* The top of the loop up to request.send(): leaves the loop when nothing
\* remains (then truncates and returns), else sends the next request.
send_page_request ==
    /\ pg_pc = "loop"
    /\ IF saturating_sub(pg_limit, Len(pg_pipelines)) = 0
       THEN /\ pg_pc' = "ok"
            /\ pg_pipelines' = truncate(pg_pipelines, pg_limit)
            /\ pg_result' = Some(pg_pipelines')
            /\ UNCHANGED sent
       ELSE /\ Len(sent) < MaxPagedRequests
            /\ sent' = Append(sent,
                         [first |-> next_fetch_count(pg_limit,
                                                     Len(pg_pipelines)),
                          after |-> pg_cursor])
            /\ pg_pc' = "await"
            /\ UNCHANGED <<pg_pipelines, pg_result>>
    /\ UNCHANGED <<pg_limit, pg_cursor, received>>

\* send() or json() fails, or the body has errors or lacks data, project or
\* pipelines: the function returns Err.
fail_page_request ==
    /\ pg_pc = "await"
    /\ pg_pc' = "err"
    /\ UNCHANGED <<pg_limit, pg_pipelines, pg_cursor, sent, received,
                   pg_result>>

\* The cursors the remote hands out
CursorNames == {"c1", "c2"}

\* How many nodes the remote may put on a page that was asked `first`
NodeCounts(first) ==
    {n \in {0, 1, first - 1, first, first + Overshoot} : n >= 0}

\* A page arrives: extend, break on no next page or enough, take the end
\* cursor, break when there is none; after the loop truncate and return.
read_page_response ==
    /\ pg_pc = "await"
    /\ \E n \in NodeCounts(sent[Len(sent)].first),
          has_next_page \in BOOLEAN,
          end_cursor \in {None} \cup {Some(c) : c \in CursorNames} :
         LET extended == pg_pipelines \o [k \in 1..n |-> Len(sent)]
             enough == ~has_next_page \/ Len(extended) >= pg_limit
             leave == enough \/ end_cursor = None
         IN  /\ received' = Append(received,
                              [nodes |-> n,
                               has_next_page |-> has_next_page,
                               end_cursor |-> end_cursor])
             /\ pg_cursor' = IF enough THEN pg_cursor ELSE end_cursor
             /\ pg_pipelines' = IF leave THEN truncate(extended, pg_limit)
                                         ELSE extended
             /\ pg_pc' = IF leave THEN "ok" ELSE "loop"
             /\ pg_result' = IF leave THEN Some(pg_pipelines') ELSE None
    /\ UNCHANGED <<pg_limit, sent>>

\* Inputs: limits at zero and one, and around one and two pages.
PagedLimits ==
    {0, 1, PAGE_SIZE - 1, PAGE_SIZE, PAGE_SIZE + 1,
     2 * PAGE_SIZE, 2 * PAGE_SIZE + 1}

PagingIdle ==
    /\ pg_limit = 0
    /\ pg_pipelines = << >>
    /\ pg_cursor = None
    /\ sent = << >>
    /\ received = << >>
    /\ pg_pc = "idle"
    /\ pg_result = None

PagingInit ==
    /\ pg_limit \in PagedLimits
    /\ pg_pipelines = << >>
    /\ pg_cursor = None
    /\ sent = << >>
    /\ received = << >>
    /\ pg_pc = "loop"
    /\ pg_result = None

PagingNext ==
    \/ send_page_request
    \/ fail_page_request
    \/ read_page_response


(***************************************************************************)
(* job_analysis.rs step by step: calculate_job_metrics with the recursion  *)
(* of calculate_finish_time on an explicit call stack, one frame per call  *)
(* that has dependencies to visit.                                         *)
(***************************************************************************)
VARIABLES
    jm_pipeline,      \* the GitLabPipeline: [stages, jobs]
    jm_keys,          \* the order in which job_map iterates
    jm_next,          \* the place in jm_keys of the loop of lines 27-35
    jm_stack,         \* the calls of calculate_finish_time in progress, each
                      \* [name, deps, pairs]: pairs are the (dep, time) so far
    jm_finish_times,  \* the `finish_times` map
    jm_predecessors,  \* the `predecessors` map
    jm_deps,          \* what get_dependencies returned, by job name
    jm_stores,        \* how many times finish_times.insert ran, by name
    job_metrics,      \* the Vec<JobMetrics> returned
    jm_pc             \* "idle", "input", "loop", "done", "overflow"

jobs_vars ==
    <<jm_pipeline, jm_keys, jm_next, jm_stack, jm_finish_times,
      jm_predecessors, jm_deps, jm_stores, job_metrics, jm_pc>>

\* frames the stack holds before the process dies of stack overflow
StackLimit == 5

jm_job_map == job_map_of(jm_pipeline.jobs, jm_keys)

jm_stage_index == stage_index_of(jm_pipeline.stages)

\* lines 6-25: the empty pipeline returns at once; else job_map is built
begin_job_metrics ==
    /\ jm_pc = "input"
    /\ IF jm_pipeline.jobs = << >>
       THEN /\ jm_pc' = "done"
            /\ job_metrics' = << >>
            /\ UNCHANGED jm_keys
       ELSE /\ jm_pc' = "loop"
            /\ jm_keys' \in Orders({jm_pipeline.jobs[i].name :
                                      i \in 1..Len(jm_pipeline.jobs)})
            /\ UNCHANGED job_metrics
    /\ UNCHANGED <<jm_pipeline, jm_next, jm_stack, jm_finish_times,
                   jm_predecessors, jm_deps, jm_stores>>

\* store_finish_time that computes and returns the time but leaves the memo
\* as it was
store_without_memo(name, time) ==
    /\ jm_finish_times' = jm_finish_times
    /\ jm_stores' = insert(jm_stores, name, get_or(jm_stores, name, 0) + 1)

\* finish_times.insert(name, time)
store_finish_time(name, time) ==
    /\ jm_finish_times' = insert(jm_finish_times, name, time)
    /\ jm_stores' = insert(jm_stores, name, get_or(jm_stores, name, 0) + 1)

\* A call returns `time` for `name` to where it was made: the closure of
\* line 115 in the frame below, or the loop of line 27.
return_to(stack, name, time) ==
    /\ jm_stack' =
         IF stack = << >> THEN << >>
         ELSE [stack EXCEPT ![Len(stack)].pairs = Append(@, <<name, time>>)]
    /\ jm_next' = IF stack = << >> THEN jm_next + 1 ELSE jm_next

\* calculate_finish_time is called (lines 28 and 116) and runs to its first
\* return (lines 94-110) or to its own first call.
enter_finish_time ==
    /\ jm_pc = "loop"
    /\ IF jm_stack = << >>
       THEN jm_next <= Len(jm_keys)
       ELSE Len(jm_stack[Len(jm_stack)].pairs)
              < Len(jm_stack[Len(jm_stack)].deps)
    /\ LET job_name ==
             IF jm_stack = << >> THEN jm_keys[jm_next]
             ELSE LET top == jm_stack[Len(jm_stack)]
                  IN  top.deps[Len(top.pairs) + 1]
       IN  IF job_name \in DOMAIN jm_finish_times
           THEN /\ return_to(jm_stack, job_name, jm_finish_times[job_name])
                /\ UNCHANGED <<jm_finish_times, jm_stores, jm_deps, jm_pc>>
           ELSE IF job_name \notin DOMAIN jm_job_map.entries
           THEN /\ store_finish_time(job_name, 0)
                /\ return_to(jm_stack, job_name, 0)
                /\ UNCHANGED <<jm_deps, jm_pc>>
           ELSE
             LET job  == jm_job_map.entries[job_name]
                 deps == get_dependencies(job, jm_job_map, jm_stage_index)
             IN  /\ jm_deps' = insert(jm_deps, job_name, deps)
                 /\ IF deps = << >>
                    THEN /\ store_finish_time(job_name, job.duration)
                         /\ return_to(jm_stack, job_name, job.duration)
                         /\ UNCHANGED jm_pc
                    ELSE IF Len(jm_stack) >= StackLimit
                    THEN /\ jm_pc' = "overflow"
                         /\ UNCHANGED <<jm_stack, jm_next, jm_finish_times,
                                        jm_stores>>
                    ELSE /\ jm_stack' = Append(jm_stack,
                                               [name  |-> job_name,
                                                deps  |-> deps,
                                                pairs |-> << >>])
                         /\ UNCHANGED <<jm_next, jm_finish_times, jm_stores,
                                        jm_pc>>
    /\ UNCHANGED <<jm_pipeline, jm_keys, jm_predecessors, job_metrics>>

\* leave_finish_time without the wait: the finish time is the job's own
\* duration, whatever its dependencies took
leave_without_waiting ==
    /\ jm_pc = "loop"
    /\ jm_stack # << >>
    /\ LET top == jm_stack[Len(jm_stack)]
       IN  /\ Len(top.pairs) = Len(top.deps)
           /\ LET job          == jm_job_map.entries[top.name]
                  slowest      == max_by_time(top.pairs, None)
                  slowest_dep  == slowest[1][1]
                  slowest_time == slowest[1][2]
                  finish_time  == job.duration
              IN  /\ store_finish_time(top.name, finish_time)
                  /\ jm_predecessors' =
                       IF slowest_time > 0
                       THEN insert(jm_predecessors, top.name, slowest_dep)
                       ELSE jm_predecessors
                  /\ return_to(SubSeq(jm_stack, 1, Len(jm_stack) - 1),
                               top.name, finish_time)
    /\ UNCHANGED <<jm_pipeline, jm_keys, jm_deps, job_metrics, jm_pc>>

\* lines 113-131: every dependency has returned; the slowest is taken, the
\* finish time stored, the predecessor kept, and the call returns.
leave_finish_time ==
    /\ jm_pc = "loop"
    /\ jm_stack # << >>
    /\ LET top == jm_stack[Len(jm_stack)]
       IN  /\ Len(top.pairs) = Len(top.deps)
           /\ LET job          == jm_job_map.entries[top.name]
                  slowest      == max_by_time(top.pairs, None)
                  slowest_dep  == slowest[1][1]
                  slowest_time == slowest[1][2]
                  finish_time  == slowest_time + job.duration
              IN  /\ store_finish_time(top.name, finish_time)
                  /\ jm_predecessors' =
                       IF slowest_time > 0
                       THEN insert(jm_predecessors, top.name, slowest_dep)
                       ELSE jm_predecessors
                  /\ return_to(SubSeq(jm_stack, 1, Len(jm_stack) - 1),
                               top.name, finish_time)
    /\ UNCHANGED <<jm_pipeline, jm_keys, jm_deps, job_metrics, jm_pc>>

\* lines 37-64: one JobMetrics per entry of job_map, sorted
collect_job_metrics ==
    /\ jm_pc = "loop"
    /\ jm_stack = << >>
    /\ jm_next > Len(jm_keys)
    /\ job_metrics' =
         sort_by_feedback(
             [i \in 1..Len(jm_keys) |->
                [name |-> jm_keys[i],
                 avg_duration_seconds |->
                     jm_job_map.entries[jm_keys[i]].duration,
                 avg_time_to_feedback_seconds |->
                     get_or(jm_finish_times, jm_keys[i], 0),
                 predecessors |->
                     build_predecessor_list(jm_keys[i], jm_predecessors,
                                            jm_job_map)]],
             << >>)
    /\ jm_pc' = "done"
    /\ UNCHANGED <<jm_pipeline, jm_keys, jm_next, jm_stack, jm_finish_times,
                   jm_predecessors, jm_deps, jm_stores>>

\* Inputs.  One, two or three names; a name may have two records, the
\* retried one and the final one in either order, alike but for their
\* durations.  A job is in a listed stage or an unlisted one; its needs are
\* absent, empty, or name jobs of the pipeline (itself too) or a job that
\* the pipeline does not have.
AnalysedShapes ==
    {<<"a">>, <<"a", "a">>, <<"a", "b">>, <<"a", "b", "a">>,
     <<"a", "a", "b">>, <<"a", "b", "c">>}

NamesIn(shape) == {shape[i] : i \in 1..Len(shape)}

NeedsAmong(names, name) ==
    IF Cardinality(names) = 3
    THEN {None, Some(<< >>)}
         \cup {Some(<<n>>) : n \in names \ {name}}
         \cup {Some(restrict_order(JobNames, names \ {name}))}
    ELSE {None, Some(<< >>), Some(<<Ghost>>)}
         \cup {Some(<<n>>) : n \in names}
         \cup {Some(<<n, Ghost>>) : n \in names \ {name}}
         \cup {Some(<<Ghost, n>>) : n \in names \ {name}}

StagesAmong(names) ==
    IF Cardinality(names) = 3 THEN {"build", "test"} ELSE JobStages

\* per name: the stage and the needs that all its records share
JobPlans(names) ==
    [names -> [stage : StagesAmong(names),
               needs : UNION {NeedsAmong(names, n) : n \in names}]]

\* per name: the place in the list of its final record (retried = false)
FinalPlaces(shape) ==
    {f \in [NamesIn(shape) -> 1..Len(shape)] :
        \A n \in NamesIn(shape) : shape[f[n]] = n}

AnalysedJob(name, stage, duration, needs, retried) ==
    [name |-> name, stage |-> stage, duration |-> duration, needs |-> needs,
     retried |-> retried]

AnalysedPipelines(shape) ==
    {[stages |-> StageList,
      jobs   |-> [i \in 1..Len(shape) |->
                     AnalysedJob(shape[i], plan[shape[i]].stage, durations[i],
                                 plan[shape[i]].needs,
                                 final[shape[i]] # i)]] :
        plan \in {pl \in JobPlans(NamesIn(shape)) :
                     \A n \in NamesIn(shape) :
                         pl[n].needs \in NeedsAmong(NamesIn(shape), n)},
        durations \in [1..Len(shape) -> 0..MaxDuration],
        final \in FinalPlaces(shape)}

JobsIdle ==
    /\ jm_pipeline = [stages |-> << >>, jobs |-> << >>]
    /\ jm_keys = << >>
    /\ jm_next = 1
    /\ jm_stack = << >>
    /\ jm_finish_times = NoMap
    /\ jm_predecessors = NoMap
    /\ jm_deps = NoMap
    /\ jm_stores = NoMap
    /\ job_metrics = << >>
    /\ jm_pc = "idle"

JobsInit ==
    /\ \/ jm_pipeline = [stages |-> StageList, jobs |-> << >>]
       \/ \E shape \in AnalysedShapes :
             jm_pipeline \in AnalysedPipelines(shape)
    /\ jm_keys = << >>
    /\ jm_next = 1
    /\ jm_stack = << >>
    /\ jm_finish_times = NoMap
    /\ jm_predecessors = NoMap
    /\ jm_deps = NoMap
    /\ jm_stores = NoMap
    /\ job_metrics = << >>
    /\ jm_pc = "input"

JobsNext ==
    \/ begin_job_metrics
    \/ enter_finish_time
    \/ leave_finish_time
    \/ collect_job_metrics

\* five jobs that all have needs = [], of durations 1, 2, 3, 4 and 5
ParallelExample ==
    [stages |-> <<"test">>,
     jobs   |-> [i \in 1..5 |->
                    AnalysedJob(<<"1", "2", "3", "4", "5">>[i], "test", i,
                                Some(<< >>), FALSE)]]

\* calculate_critical_path on pipelines that hold the records of retried
\* jobs as well as the final ones
PathRecordsInit ==
    /\ \/ pipeline = ParallelExample
       \/ \E shape \in AnalysedShapes :
             pipeline \in AnalysedPipelines(shape)
    /\ Acyclic(pipeline)
    /\ finish_times = NoMap
    /\ predecessors = NoMap
    /\ critical_path = None
    /\ path_pc = "input"


(***************************************************************************)
(* The two paging loops against a remote that puts at least one node on    *)
(* every page it says is followed by another: fetch_pipelines_with_status  *)
(* as above, and fetch_pipeline_jobs, whose loop has no limit.             *)
(***************************************************************************)
VARIABLES
    jb_jobs,         \* all_jobs.len()
    jb_cursor,       \* cursor: Option<String>
    jb_sent,         \* the variables of every request sent, in order
    jb_received,     \* what every response held, in order
    jb_pc            \* "loop", "await", "ok", "err"

remote_vars == <<jb_jobs, jb_cursor, jb_sent, jb_received, jb_pc>>

\* requests for jobs the model follows before it stops
MaxJobRequests == 3

\* The top of the loop of fetch_pipeline_jobs up to request.send(): always
\* a full page, after the cursor held.
send_jobs_request ==
    /\ jb_pc = "loop"
    /\ Len(jb_sent) < MaxJobRequests
    /\ jb_sent' = Append(jb_sent, [first |-> PAGE_SIZE, after |-> jb_cursor])
    /\ jb_pc' = "await"
    /\ UNCHANGED <<jb_jobs, jb_cursor, jb_received>>

\* send() or json() fails, or the body has errors or lacks data, project,
\* pipeline or jobs: the function returns Err.
fail_jobs_request ==
    /\ jb_pc = "await"
    /\ jb_pc' = "err"
    /\ UNCHANGED <<jb_jobs, jb_cursor, jb_sent, jb_received>>

\* read_jobs_response that goes round again whenever the page reports a
\* next page, with or without a cursor
read_jobs_response_without_cursor ==
    /\ jb_pc = "await"
    /\ \E n \in {0, 1, PAGE_SIZE},
          has_next_page \in BOOLEAN,
          end_cursor \in {None} \cup {Some(c) : c \in CursorNames} :
         /\ jb_received' = Append(jb_received,
                             [nodes |-> n,
                              has_next_page |-> has_next_page,
                              end_cursor |-> end_cursor])
         /\ jb_jobs' = jb_jobs + n
         /\ jb_cursor' = IF has_next_page THEN end_cursor ELSE jb_cursor
         /\ jb_pc' = IF has_next_page THEN "loop" ELSE "ok"
    /\ UNCHANGED jb_sent

\* A page of jobs arrives: extend, break on no next page, take the end
\* cursor, break when there is none; after the loop return Ok(all_jobs).
read_jobs_response ==
    /\ jb_pc = "await"
    /\ \E n \in {0, 1, PAGE_SIZE},
          has_next_page \in BOOLEAN,
          end_cursor \in {None} \cup {Some(c) : c \in CursorNames} :
         /\ jb_received' = Append(jb_received,
                             [nodes |-> n,
                              has_next_page |-> has_next_page,
                              end_cursor |-> end_cursor])
         /\ jb_jobs' = jb_jobs + n
         /\ jb_cursor' = IF has_next_page THEN end_cursor ELSE jb_cursor
         /\ jb_pc' = IF has_next_page /\ end_cursor # None
                     THEN "loop" ELSE "ok"
    /\ UNCHANGED jb_sent

\* A page says another follows it: it reports a next page and gives the
\* cursor to ask for it.
promises_more(page) == page.has_next_page /\ page.end_cursor # None

\* read_page_response for a page of the remote assumed here: one that
\* promises more holds at least one node
read_cooperative_page ==
    /\ read_page_response
    /\ LET page == received'[Len(received')]
       IN  promises_more(page) => page.nodes >= 1

RemoteIdle ==
    /\ jb_jobs = 0
    /\ jb_cursor = None
    /\ jb_sent = << >>
    /\ jb_received = << >>
    /\ jb_pc = "idle"

\* One call of either function; the limits are those the requests followed
\* can serve one node at a time.
RemoteInit ==
    \/ /\ pg_limit \in 0..MaxPagedRequests
       /\ pg_pipelines = << >>
       /\ pg_cursor = None
       /\ sent = << >>
       /\ received = << >>
       /\ pg_pc = "loop"
       /\ pg_result = None
       /\ RemoteIdle
    \/ /\ PagingIdle
       /\ jb_jobs = 0
       /\ jb_cursor = None
       /\ jb_sent = << >>
       /\ jb_received = << >>
       /\ jb_pc = "loop"

RemoteNext ==
    \/ send_page_request /\ UNCHANGED remote_vars
    \/ fail_page_request /\ UNCHANGED remote_vars
    \/ read_cooperative_page /\ UNCHANGED remote_vars
    \/ send_jobs_request /\ UNCHANGED paging_vars
    \/ fail_jobs_request /\ UNCHANGED paging_vars
    \/ read_jobs_response /\ UNCHANGED paging_vars


(***************************************************************************)
(* The specifications.                                                     *)
(***************************************************************************)
IngestIdle ==
    /\ limit = 0
    /\ job_pages = 1
    /\ stream_pc = [s \in StreamSet |-> "idle"]
    /\ all_pipelines = [s \in StreamSet |-> << >>]
    /\ cursor = [s \in StreamSet |-> None]
    /\ request = [s \in StreamSet |-> None]
    /\ stream_reqs = [s \in StreamSet |-> 0]
    /\ main_pc = "idle"
    /\ pipeline_nodes = << >>
    /\ polled = 0
    /\ task_pc = << >>
    /\ job_reqs = << >>
    /\ outcome = NoOutcome

vars ==
    <<ingest_vars,
      cluster_vars,
      path_vars,
      metrics_vars,
      client_vars,
      token_vars,
      url_vars,
      permute_vars,
      paging_vars,
      jobs_vars,
      remote_vars>>

\* Each specification runs one part of the program and leaves the
\* variables of the other parts at rest.
AtRest(part) ==
    /\ IF part = "ingest" THEN TRUE ELSE IngestIdle
    /\ IF part = "cluster" THEN TRUE ELSE ClusterIdle
    /\ IF part = "path" THEN TRUE ELSE PathIdle
    /\ IF part = "metrics" THEN TRUE ELSE MetricsIdle
    /\ IF part = "client" THEN TRUE ELSE ClientIdle
    /\ IF part = "token" THEN TRUE ELSE TokenIdle
    /\ IF part = "url" THEN TRUE ELSE UrlIdle
    /\ IF part = "permute" THEN TRUE ELSE PermuteIdle
    /\ IF part \in {"paging", "remote"} THEN TRUE ELSE PagingIdle
    /\ IF part = "jobs" THEN TRUE ELSE JobsIdle
    /\ IF part = "remote" THEN TRUE ELSE RemoteIdle

Untouched(part) ==
    /\ IF part = "ingest" THEN TRUE ELSE UNCHANGED ingest_vars
    /\ IF part = "cluster" THEN TRUE ELSE UNCHANGED cluster_vars
    /\ IF part = "path" THEN TRUE ELSE UNCHANGED path_vars
    /\ IF part = "metrics" THEN TRUE ELSE UNCHANGED metrics_vars
    /\ IF part = "client" THEN TRUE ELSE UNCHANGED client_vars
    /\ IF part = "token" THEN TRUE ELSE UNCHANGED token_vars
    /\ IF part = "url" THEN TRUE ELSE UNCHANGED url_vars
    /\ IF part = "permute" THEN TRUE ELSE UNCHANGED permute_vars
    /\ IF part \in {"paging", "remote"} THEN TRUE ELSE UNCHANGED paging_vars
    /\ IF part = "jobs" THEN TRUE ELSE UNCHANGED jobs_vars
    /\ IF part = "remote" THEN TRUE ELSE UNCHANGED remote_vars

\* collect_insights against a remote that may fail or misbehave
Init == IngestInit /\ AtRest("ingest")
Next == IngestNext /\ Untouched("ingest")
Spec == Init /\ [][Next]_vars

\* the fan-out of GitLabProvider::fetch_pipelines over MaxFanOut summaries:
\* client.fetch_pipelines has returned one page per status stream, the
\* first `lacking` summaries carrying no duration
FanOutNode(i, lacking) ==
    Node(IF i < MaxFanOut THEN "SUCCESS" ELSE "FAILED",
         IF i < MaxFanOut THEN i ELSE 1,
         IF i <= lacking THEN None ELSE Some(7))

IngestInitFanOut ==
    \E lacking \in 0..1 :
        /\ limit = 2 * MaxFanOut
        /\ job_pages = 1
        /\ stream_pc = [s \in StreamSet |-> "ok"]
        /\ all_pipelines =
               [s \in StreamSet |->
                   IF s = "SUCCESS"
                   THEN [i \in 1..(MaxFanOut - 1) |-> FanOutNode(i, lacking)]
                   ELSE <<FanOutNode(MaxFanOut, lacking)>>]
        /\ cursor = [s \in StreamSet |-> None]
        /\ request = [s \in StreamSet |->
                         Some([first |-> Min(MaxFanOut, PAGE_SIZE),
                               after |-> None, status |-> s])]
        /\ stream_reqs = [s \in StreamSet |-> 1]
        /\ main_pc = "join_all"
        /\ pipeline_nodes = [i \in 1..MaxFanOut |-> FanOutNode(i, lacking)]
        /\ polled = 0
        /\ task_pc = [i \in 1..MaxFanOut |-> "pending"]
        /\ job_reqs = [i \in 1..MaxFanOut |-> 0]
        /\ outcome = NoOutcome

FanOutNext ==
    \/ PollTask
    \/ \E i \in Tasks : JobsError(i)
    \/ \E i \in Tasks : JobsPage(i)
    \/ JoinAll

InitFanOut == IngestInitFanOut /\ AtRest("ingest")
NextFanOut == FanOutNext /\ Untouched("ingest")
SpecFanOut == InitFanOut /\ [][NextFanOut]_vars

\* group_pipeline_types on bounded inputs
InitCluster == ClusterInit /\ AtRest("cluster")
NextCluster == ClusterNext /\ Untouched("cluster")
SpecCluster == InitCluster /\ [][NextCluster]_vars

\* calculate_critical_path on bounded inputs
InitPath == PathInit /\ AtRest("path")
NextPath == PathNext /\ Untouched("path")
SpecPath == InitPath /\ [][NextPath]_vars

\* calculate_critical_path on pipelines with the records of retried jobs
InitPathRecords == PathRecordsInit /\ AtRest("path")
SpecPathRecords == InitPathRecords /\ [][NextPath]_vars

\* calculate_type_metrics on bounded clusters
InitMetrics == MetricsInit /\ AtRest("metrics")
NextMetrics == MetricsNext /\ Untouched("metrics")
SpecMetrics == InitMetrics /\ [][NextMetrics]_vars

\* one GraphQL round trip against a remote that may fail in every way
InitClient == ClientInit /\ AtRest("client")
NextClient == ClientNext /\ Untouched("client")
SpecClient == InitClient /\ [][NextClient]_vars

\* the renderings of two tokens
InitToken == TokenInit /\ AtRest("token")
NextToken == TokenNext /\ Untouched("token")
SpecToken == InitToken /\ [][NextToken]_vars

\* the links of bounded global ids
InitUrl == UrlInit /\ AtRest("url")
NextUrl == UrlNext /\ Untouched("url")
SpecUrl == InitUrl /\ [][NextUrl]_vars

\* group_pipeline_types on a list and on a permutation of it
InitPermute == PermuteInit /\ AtRest("permute")
NextPermute == PermuteNext /\ Untouched("permute")
SpecPermute == InitPermute /\ [][NextPermute]_vars

\* fetch_pipelines_with_status alone, request by request
InitPaging == PagingInit /\ AtRest("paging")
NextPaging == PagingNext /\ Untouched("paging")
SpecPaging == InitPaging /\ [][NextPaging]_vars

\* calculate_job_metrics of job_analysis.rs, call by call
InitJobs == JobsInit /\ AtRest("jobs")
NextJobs == JobsNext /\ Untouched("jobs")
SpecJobs == InitJobs /\ [][NextJobs]_vars

\* the analysis with its steps taken as long as there is one (the function
\* runs on one thread that nothing else holds up), on the pipelines whose
\* records all last 1: the durations have no part in the calls made
JobsFairInit ==
    /\ JobsInit
    /\ \A i \in 1..Len(jm_pipeline.jobs) : jm_pipeline.jobs[i].duration = 1
InitJobsFair == JobsFairInit /\ AtRest("jobs")
SpecJobsFair == InitJobsFair /\ [][NextJobs]_vars /\ WF_vars(NextJobs)

\* either paging loop against a remote whose pages that promise more are
\* never empty; a request sent is answered or fails, and the loop runs on
InitRemote == RemoteInit /\ AtRest("remote")
NextRemote == RemoteNext /\ Untouched("remote")
SpecRemote == InitRemote /\ [][NextRemote]_vars /\ WF_vars(NextRemote)


(***************************************************************************)
(* Properties of the clustering.                                           *)
(***************************************************************************)
Grouped == cluster_pc = "grouped"

Range(seq) == {seq[i] : i \in 1..Len(seq)}
Ids(ps) == {ps[i].id : i \in 1..Len(ps)}

\* the job names of a pipeline as a set: retried duplicates count once
NameSet(p) == {p.jobs[i].name : i \in 1..Len(p.jobs)}

SameCluster(p, q) ==
    \E k \in DOMAIN clusters : {p.id, q.id} \subseteq Ids(clusters[k])

\* the pipelines an emitted type counts, by its evidence lists
TypeIds(pt) ==
    Range(pt.metrics.successful_pipelines) \cup Range(pt.metrics.failed_pipelines)

\* the signature of the cluster an emitted type was made from
TypeSignature(pt) ==
    CHOOSE k \in DOMAIN clusters : Ids(clusters[k]) = TypeIds(pt)

Emitted(k) ==
    \E t \in 1..Len(pipeline_types) :
        TypeIds(pipeline_types[t]) = Ids(clusters[k])

RECURSIVE SumTotals(_)
SumTotals(types) ==
    IF types = << >> THEN 0
    ELSE Head(types).metrics.total_pipelines + SumTotals(Tail(types))

\* C5: two input pipelines are in the same cluster iff their sets of job
\* names are equal, and every input pipeline is in a cluster.
C5_ExactSignatureClusters ==
    Grouped =>
        /\ \A i \in 1..Len(pipelines) :
               \E k \in DOMAIN clusters : pipelines[i].id \in Ids(clusters[k])
        /\ \A i, j \in 1..Len(pipelines) :
               SameCluster(pipelines[i], pipelines[j])
                   <=> NameSet(pipelines[i]) = NameSet(pipelines[j])

\* a pipeline with a retried duplicate shares the cluster of one without,
\* and a third that has one more name is kept apart from both
C5_Witness ==
    /\ Grouped
    /\ \E i, j, k \in 1..Len(pipelines) :
           /\ Len(pipelines[i].jobs) > Len(pipelines[j].jobs)
           /\ SameCluster(pipelines[i], pipelines[j])
           /\ NameSet(pipelines[j]) \subseteq NameSet(pipelines[k])
           /\ Cardinality(NameSet(pipelines[k]))
                  = Cardinality(NameSet(pipelines[j])) + 1
           /\ ~SameCluster(pipelines[j], pipelines[k])

\* the pipelines whose cluster (the pipelines with the same set of job
\* names) passes the filter of group_pipeline_types
ClusterSize(p) ==
    Cardinality({j \in 1..Len(pipelines) : NameSet(pipelines[j]) = NameSet(p)})

Survivors ==
    {i \in 1..Len(pipelines) :
        f64_ge(percentage_of(ClusterSize(pipelines[i]), Len(pipelines)),
               min_type_percentage)}

\* C6: the emitted types partition the pipelines that pass the threshold
\* filter: no pipeline is counted by two types or twice by one, and the
\* total_pipelines of the emitted types add up to the number of pipelines
\* whose cluster passes the filter, the whole input at threshold 0.
C6_TypesPartitionSurvivors ==
    Grouped =>
        /\ \A i \in 1..Len(pipelines) :
               Cardinality({t \in 1..Len(pipeline_types) :
                   pipelines[i].id \in TypeIds(pipeline_types[t])}) <= 1
        /\ \A t \in 1..Len(pipeline_types) :
               LET m == pipeline_types[t].metrics
               IN  /\ m.total_pipelines = Cardinality(TypeIds(pipeline_types[t]))
                   /\ m.total_pipelines = Len(m.successful_pipelines)
                                            + Len(m.failed_pipelines)
        /\ SumTotals(pipeline_types) = Cardinality(Survivors)
        /\ min_type_percentage = 0 => SumTotals(pipeline_types) = Len(pipelines)

\* a type counting several pipelines, successful and failed, is emitted
\* while another cluster is filtered out by a threshold above 0
C6_Witness ==
    /\ Grouped
    /\ min_type_percentage > 0
    /\ \E t \in 1..Len(pipeline_types) :
           /\ pipeline_types[t].metrics.successful_pipelines # << >>
           /\ pipeline_types[t].metrics.failed_pipelines # << >>
    /\ \E k \in DOMAIN clusters : ~Emitted(k)

\* C7: a cluster is emitted exactly when count / total * 100 is at least
\* min_type_percentage, and the emitted list is ordered by total_pipelines,
\* largest first.
C7_ThresholdAndOrder ==
    Grouped =>
        /\ \A k \in DOMAIN clusters :
               Emitted(k) <=> Len(clusters[k]) * 100
                                  >= min_type_percentage * Len(pipelines)
        /\ \A t \in 1..(Len(pipeline_types) - 1) :
               pipeline_types[t].metrics.total_pipelines
                   >= pipeline_types[t + 1].metrics.total_pipelines

\* the keyword scan, stated on the set of names of a cluster
HasKeyword(names, kw) ==
    \E n \in names : \E i \in 1..Len(n) :
        /\ i + Len(kw) - 1 <= Len(n)
        /\ \A d \in 1..Len(kw) :
               LET b == n[i + d - 1]
               IN  kw[d] = IF b \in 65..90 THEN b + 32 ELSE b

\* the label as the specification gives it
SpecLabel(names) ==
    IF HasKeyword(names, KwProd) THEN "Production Pipeline"
    ELSE IF HasKeyword(names, KwStaging) \/ HasKeyword(names, KwDev)
         THEN "Development Pipeline"
    ELSE IF HasKeyword(names, KwTest) \/ HasKeyword(names, KwQa)
         THEN "Test Pipeline"
    ELSE "Unknown Pipeline"

\* the label with test and qa counted as development keywords
TwoTierLabel(names) ==
    IF HasKeyword(names, KwProd) THEN "Production Pipeline"
    ELSE IF \E kw \in {KwStaging, KwDev, KwTest, KwQa} : HasKeyword(names, kw)
         THEN "Development Pipeline"
    ELSE "Unknown Pipeline"

\* C8 as claimed: the label follows the four-way priority prod, then
\* staging or dev, then test or qa ("Test Pipeline"), then unknown.
C8_LabelAsClaimed ==
    Grouped =>
        \A t \in 1..Len(pipeline_types) :
            pipeline_types[t].label
                = SpecLabel(Range(TypeSignature(pipeline_types[t])))

\* C8 amended: the label is "Production Pipeline" if a name contains prod,
\* else "Development Pipeline" if a name contains staging, dev, test or qa,
\* else "Unknown Pipeline"; "Test Pipeline" is never produced.
C8_LabelTwoTier ==
    Grouped =>
        \A t \in 1..Len(pipeline_types) :
            /\ pipeline_types[t].label
                   = TwoTierLabel(Range(TypeSignature(pipeline_types[t])))
            /\ pipeline_types[t].label # "Test Pipeline"

\* a cluster whose names hold qa or test and none of prod, staging, dev is
\* emitted as a development pipeline, and an upper-case PROD as production
C8_Witness ==
    /\ Grouped
    /\ \E t \in 1..Len(pipeline_types) :
           LET names == Range(TypeSignature(pipeline_types[t]))
           IN  /\ HasKeyword(names, KwQa) \/ HasKeyword(names, KwTest)
               /\ ~HasKeyword(names, KwProd)
               /\ ~HasKeyword(names, KwStaging)
               /\ ~HasKeyword(names, KwDev)
               /\ pipeline_types[t].label = "Development Pipeline"
    /\ \E t \in 1..Len(pipeline_types) :
           /\ Prod \in Range(TypeSignature(pipeline_types[t]))
           /\ pipeline_types[t].label = "Production Pipeline"


(***************************************************************************)
(* Properties of the ingestion.                                            *)
(***************************************************************************)
StreamItems(status) ==
    {i \in 1..Len(pipeline_nodes) : pipeline_nodes[i].status = status}

\* client.fetch_pipelines has returned Ok
Fetched ==
    /\ main_pc \in {"join_all", "returned"}
    /\ \A s \in StreamSet : stream_pc[s] = "ok"

\* C1: fetch_pipelines returns the items of the SUCCESS stream followed by
\* those of the FAILED stream, at most floor(limit / 2) of each and at most
\* limit in all, no FAILED-stream item before a SUCCESS-stream item.
C1_SuccessThenFailed ==
    Fetched =>
        /\ pipeline_nodes = all_pipelines["SUCCESS"] \o all_pipelines["FAILED"]
        /\ \A s \in StreamSet : Cardinality(StreamItems(s)) <= limit \div 2
        /\ Len(pipeline_nodes) <= limit
        /\ \A i, j \in 1..Len(pipeline_nodes) :
               pipeline_nodes[i].status = "FAILED"
                   /\ pipeline_nodes[j].status = "SUCCESS" => j < i

\* an odd limit, both streams filled to floor(limit / 2) after more than
\* one request each
C1_Witness ==
    /\ Fetched
    /\ limit % 2 = 1
    /\ \A s \in StreamSet :
           /\ Cardinality(StreamItems(s)) = limit \div 2
           /\ stream_reqs[s] >= 2

SomeCallFailed ==
    \/ \E s \in StreamSet : stream_pc[s] = "err"
    \/ \E i \in Tasks : task_pc[i] = "err"

RECURSIVE WithDuration(_)
WithDuration(nodes) ==
    IF nodes = << >> THEN << >>
    ELSE (IF Head(nodes).duration = None THEN << >> ELSE <<Head(nodes)>>)
         \o WithDuration(Tail(nodes))

\* what collect_insights has returned, against the calls that failed
C2_Outcome ==
    /\ main_pc # "returned" => outcome = NoOutcome
    /\ main_pc = "returned" =>
           IF SomeCallFailed
           THEN /\ outcome.kind = "err"
                /\ \/ /\ outcome.error[1] = "pipelines"
                      /\ stream_pc[outcome.error[2]] = "err"
                   \/ /\ outcome.error[1] = "jobs"
                      /\ \E i \in Tasks : /\ pipeline_nodes[i] = outcome.error[2]
                                          /\ task_pc[i] = "err"
           ELSE /\ outcome.kind = "report"
                /\ outcome.pipelines = WithDuration(pipeline_nodes)
                /\ outcome.total_pipelines = Len(outcome.pipelines)

\* a call that has failed is left alone: no request follows it
C2_NoRetry ==
    /\ \A s \in StreamSet :
           stream_pc[s] = "err" =>
               stream_pc'[s] = "err" /\ stream_reqs'[s] = stream_reqs[s]
    /\ \A i \in Tasks :
           task_pc[i] = "err" =>
               task_pc'[i] = "err" /\ job_reqs'[i] = job_reqs[i]

\* C2: if a remote call of the ingestion fails, collect_insights returns the
\* error of a failed call and no report, nothing being returned before the
\* end; a report covers every pipeline with a duration; no failed call is
\* retried.
C2_ErrorsPropagate == []C2_Outcome /\ [][C2_NoRetry]_vars

\* the job fetch of one pipeline failed, that of another succeeded, and
\* collect_insights returned the error
C2_Witness ==
    /\ main_pc = "returned"
    /\ outcome.kind = "err"
    /\ \E i, j \in Tasks : task_pc[i] = "ok" /\ task_pc[j] = "err"

GroupHasFailed ==
    \/ main_pc = "client_fetch" /\ \E s \in StreamSet : stream_pc[s] = "err"
    \/ main_pc = "join_all" /\ \E i \in Tasks : task_pc[i] = "err"

NoRequestIssued == stream_reqs' = stream_reqs /\ job_reqs' = job_reqs

\* C3 as claimed: once a task of a concurrent group has failed, no task of
\* the group issues a further remote request before the error is returned.
C3_FirstErrorCancels == [][GroupHasFailed => NoRequestIssued]_vars

\* C3 amended: a failure does not cancel its group.  The error is returned
\* only once every task of the group has finished, each of the others
\* having run to its own end, and it is the error of the first failed task
\* in the order of the group.
C3_JoinWaitsForAll ==
    main_pc = "returned" /\ outcome.kind = "err" =>
        /\ \A s \in StreamSet : StreamDone(s)
        /\ \A i \in Tasks : TaskDone(i)
        /\ outcome.error[1] = "pipelines" =>
               \/ outcome.error[2] = "SUCCESS"
               \/ stream_pc["SUCCESS"] = "ok"
        /\ outcome.error[1] = "jobs" =>
               \A i \in Tasks :
                   task_pc[i] = "err" =>
                       \E j \in 1..i : /\ task_pc[j] = "err"
                                       /\ pipeline_nodes[j] = outcome.error[2]

\* the SUCCESS stream failed on its first request, the FAILED stream went
\* on to a second page and finished, and only then was the error returned
C3_Witness ==
    /\ main_pc = "returned"
    /\ outcome = Failure(<<"pipelines", "SUCCESS">>)
    /\ stream_reqs["SUCCESS"] = 1
    /\ stream_pc["FAILED"] = "ok"
    /\ stream_reqs["FAILED"] >= 2

InFlight == Cardinality({i \in Tasks : task_pc[i] = "await"})

JobSet == {pipeline.jobs[i] : i \in 1..Len(pipeline.jobs)}

\* the loop over job_map.keys() has filled the finish table
Tabled == path_pc = "done" /\ finish_times # NoMap

\* C9 as claimed: finish(j) >= duration(j) for every job, and finish(j) =
\* duration(j) exactly when deps(j) is empty, also where deps(j) names
\* absent jobs or jobs of duration 0.
C9_FinishEqualsDurationIffNoDeps ==
    Tabled =>
        \A j \in JobSet :
            /\ finish_times[j.name] >= j.duration
            /\ finish_times[j.name] = j.duration <=> DepSet(pipeline, j) = {}

\* C9 amended: finish(j) >= duration(j) for every job, and finish(j) =
\* duration(j) exactly when every job named in deps(j) has finish time 0:
\* when deps(j) is empty, and also when it names only absent jobs and jobs
\* that finish at 0.
C9_FinishEqualsDurationIffDepsAtZero ==
    Tabled =>
        \A j \in JobSet :
            /\ finish_times[j.name] >= j.duration
            /\ finish_times[j.name] = j.duration
                 <=> \A d \in DepSet(pipeline, j) : finish_times[d] = 0

\* a job of positive duration waits for an absent job and for a job that
\* finishes at 0, and finishes at its own duration; another job finishes
\* later than its own duration
C9_Witness ==
    /\ Tabled
    /\ \E j \in JobSet :
          /\ j.duration > 0
          /\ Ghost \in DepSet(pipeline, j)
          /\ DepSet(pipeline, j) \ {Ghost} # {}
          /\ finish_times[j.name] = j.duration
    /\ \E j \in JobSet : finish_times[j.name] > j.duration

\* the finish time of a name, computed as the code computes it
finish_of(name) ==
    calculate_finish_time(
        name,
        job_map_of(pipeline.jobs, [i \in 1..Len(pipeline.jobs) |->
                                       pipeline.jobs[i].name]),
        stage_index_of(pipeline.stages),
        [finish_times |-> NoMap, predecessors |-> NoMap]).finish_times[name]

\* C10: for a pipeline with at least one job, calculate_critical_path returns
\* a non-empty path whose last element is a job of maximal finish time,
\* whose total duration is that finish time, and along which finish times do
\* not decrease; build 10 -> test 20 -> deploy 5 gives [build, test, deploy]
\* with total 35.
C10_CriticalPathEndsAtMaxFinish ==
    path_pc = "done" /\ pipeline.jobs # << >> =>
        /\ critical_path # None
        /\ LET cp   == critical_path[1]
               n    == Len(cp.jobs)
           IN  /\ n >= 1
               /\ \E j \in JobSet : j.name = cp.jobs[n].name
               /\ \A j \in JobSet :
                      finish_of(j.name) <= finish_of(cp.jobs[n].name)
               /\ cp.total_duration = finish_of(cp.jobs[n].name)
               /\ \A i \in 1..(n - 1) :
                      finish_of(cp.jobs[i].name)
                        <= finish_of(cp.jobs[i + 1].name)
        /\ pipeline = StagedExample =>
               /\ [i \in 1..Len(critical_path[1].jobs) |->
                      critical_path[1].jobs[i].name]
                    = <<"build", "test", "deploy">>
               /\ critical_path[1].total_duration = 35

\* the two tables as the walk fills them when job_map iterates in the
\* order of the job list
listed_memo ==
    LET keys == [i \in 1..Len(pipeline.jobs) |-> pipeline.jobs[i].name]
    IN  finish_all(keys, job_map_of(pipeline.jobs, keys),
                   stage_index_of(pipeline.stages),
                   [finish_times |-> NoMap, predecessors |-> NoMap])

\* the feedback times of calculate_job_metrics, by job name
feedback_times(keys) ==
    LET metrics == calculate_job_metrics(pipeline, keys)
    IN  {<<metrics[i].name, metrics[i].avg_time_to_feedback_seconds>> :
            i \in 1..Len(metrics)}

\* C18: whatever the order in which the job map iterates, every job has
\* the finish time it has under the order of the job list, the total of the
\* critical path is the largest finish time, the same jobs have a recorded
\* predecessor, and a predecessor that differs is a dependency of equal
\* finish time; calculate_job_metrics reports the same times to feedback
\* under every order.
C18_FinishTimesWhateverTheOrder ==
    Tabled =>
        /\ finish_times = listed_memo.finish_times
        /\ critical_path # None =>
              \A n \in DOMAIN finish_times :
                  finish_times[n] <= critical_path[1].total_duration
        /\ critical_path # None =>
              \E n \in DOMAIN finish_times :
                  finish_times[n] = critical_path[1].total_duration
        /\ DOMAIN predecessors = DOMAIN listed_memo.predecessors
        /\ \A n \in DOMAIN predecessors :
              predecessors[n] # listed_memo.predecessors[n] =>
                  /\ \E j \in JobSet :
                        /\ j.name = n
                        /\ {predecessors[n], listed_memo.predecessors[n]}
                              \subseteq DepSet(pipeline, j)
                  /\ finish_times[predecessors[n]]
                        = finish_times[listed_memo.predecessors[n]]
        /\ \A keys \in Orders({j.name : j \in JobSet}) :
              feedback_times(keys) =
                  {<<j.name, finish_times[j.name]>> : j \in JobSet}

\* two dependencies finish together, later than 0, and the run records
\* another of them than the run in the order of the job list does
C18_Witness ==
    /\ Tabled
    /\ \E n \in DOMAIN predecessors :
          /\ predecessors[n] # listed_memo.predecessors[n]
          /\ finish_times[predecessors[n]] > 0
          /\ finish_times[n] > finish_times[predecessors[n]]

(***************************************************************************)
(* Properties of the type metrics.                                         *)
(***************************************************************************)
Measured == metrics_pc = "done"

\* the records of `name` in pipeline p, in their order
RecordsIn(p, name) == records_named(p.jobs, name)

Retries(recs) == Cardinality({i \in 1..Len(recs) : recs[i].retried})

\* the claim's two classes of one (pipeline, job name)
Flaky(recs) ==
    /\ \E i \in 1..Len(recs) : recs[i].retried
    /\ \E i \in 1..Len(recs) : ~recs[i].retried /\ recs[i].status = "SUCCESS"

Failed(recs) ==
    /\ ~Flaky(recs)
    /\ \A i \in 1..Len(recs) : ~recs[i].retried => recs[i].status # "SUCCESS"

\* the pipelines of the cluster that have records of `name`
Running(name) ==
    {i \in 1..Len(type_pipelines) : RecordsIn(type_pipelines[i], name) # << >>}

RECURSIVE Total(_, _)
Total(f, set) ==
    IF set = {} THEN 0
    ELSE LET x == CHOOSE y \in set : TRUE
         IN  f[x] + Total(f, set \ {x})

LinkedPipelines(links) == {links[k][1] : k \in 1..Len(links)}

\* C11: for every job name, flaky_retries is the number of retried records
\* of the pipelines where the name is flaky (some record retried and the
\* record that was not retried is SUCCESS), failed_executions is the number
\* of pipelines where it is failed (not flaky, and the record that was not
\* retried is not SUCCESS or is missing), total_executions is the number of
\* records, and no pipeline is linked as both flaky and failed.
C11_FlakyOrFailedNeverBoth ==
    Measured =>
        /\ DOMAIN reliability_data = NamesOf(type_pipelines)
        /\ \A name \in DOMAIN reliability_data :
              LET r    == reliability_data[name]
                  recs == [i \in Running(name) |->
                              RecordsIn(type_pipelines[i], name)]
              IN  /\ r.total_executions =
                        Total([i \in Running(name) |-> Len(recs[i])],
                              Running(name))
                  /\ r.flaky_retries =
                        Total([i \in Running(name) |->
                                  IF Flaky(recs[i]) THEN Retries(recs[i])
                                  ELSE 0],
                              Running(name))
                  /\ r.failed_executions =
                        Total([i \in Running(name) |->
                                  IF Failed(recs[i]) THEN 1 ELSE 0],
                              Running(name))
                  /\ LinkedPipelines(r.flaky_job_links)
                        \cap LinkedPipelines(r.failed_job_links) = {}
                  /\ LinkedPipelines(r.flaky_job_links) =
                        {i \in Running(name) : Flaky(recs[i])}
                  /\ LinkedPipelines(r.failed_job_links) \subseteq
                        {i \in Running(name) : Failed(recs[i])}

\* a pipeline whose job "a" was retried after a FAILED run and then
\* succeeded: two executions, one flaky retry, no failed execution
C11_Witness ==
    /\ Measured
    /\ Len(type_pipelines) = 1
    /\ LET recs == RecordsIn(type_pipelines[1], "a")
       IN  /\ Len(recs) = 2
           /\ recs[1].retried /\ recs[1].status = "FAILED"
           /\ ~recs[2].retried /\ recs[2].status = "SUCCESS"
    /\ reliability_data["a"].total_executions = 2
    /\ reliability_data["a"].flaky_retries = 1
    /\ reliability_data["a"].failed_executions = 0

\* C12: for every job name, flaky_retries + failed_executions is at most
\* total_executions, in the reliability data and in the jobs of the metrics.
C12_FlakyPlusFailedWithinTotal ==
    Measured =>
        /\ \A name \in DOMAIN reliability_data :
              reliability_data[name].flaky_retries
                  + reliability_data[name].failed_executions
                <= reliability_data[name].total_executions
        /\ \A k \in 1..Len(type_metrics.jobs) :
              type_metrics.jobs[k].flaky_retries.count
                  + type_metrics.jobs[k].failed_executions.count
                <= type_metrics.jobs[k].total_executions

\* a job that is flaky in one pipeline of the cluster and failed in another
C12_Witness ==
    /\ Measured
    /\ \E k \in 1..Len(type_metrics.jobs) :
          /\ type_metrics.jobs[k].flaky_retries.count > 1
          /\ type_metrics.jobs[k].failed_executions.count > 0

Percent(x) == ~f64_lt(x, f64_zero) /\ ~f64_lt(f64_from(100), x)

\* C13: success_rate is successful / max(total, 1) * 100; success_rate,
\* flakiness_rate and failure_rate lie in [0, 100]; a rate over no
\* executions is 0; the empty cluster has success_rate 0.
C13_RatesArePercentages ==
    Measured =>
        /\ type_metrics.success_rate =
              f64_mul(f64_div(type_metrics.successful_pipelines.count,
                              IF type_metrics.total_pipelines > 1
                              THEN type_metrics.total_pipelines ELSE 1),
                      100)
        /\ Percent(type_metrics.success_rate)
        /\ type_pipelines = << >> => type_metrics.success_rate = f64_zero
        /\ \A name \in DOMAIN reliability_data :
              LET r == reliability_data[name]
              IN  /\ Percent(r.flakiness_rate)
                  /\ Percent(r.failure_rate)
                  /\ r.flakiness_rate =
                        f64_mul(f64_div(r.flaky_retries, r.total_executions),
                                100)
                  /\ r.failure_rate =
                        f64_mul(f64_div(r.failed_executions,
                                        r.total_executions), 100)
                  /\ calculate_rate(r.flaky_retries, 0) = f64_zero
                  /\ calculate_rate(r.failed_executions, 0) = f64_zero
        /\ \A k \in 1..Len(type_metrics.jobs) :
              /\ Percent(type_metrics.jobs[k].flakiness_rate)
              /\ Percent(type_metrics.jobs[k].failure_rate)

\* a cluster of one successful and one failed pipeline with a job whose
\* flakiness rate is a third
C13_Witness ==
    /\ Measured
    /\ type_metrics.total_pipelines = 2
    /\ type_metrics.successful_pipelines.count = 1
    /\ \E k \in 1..Len(type_metrics.jobs) :
          /\ type_metrics.jobs[k].total_executions = 3
          /\ type_metrics.jobs[k].flaky_retries.count = 1
          /\ f64_lt(f64_from(33), type_metrics.jobs[k].flakiness_rate)
          /\ f64_lt(type_metrics.jobs[k].flakiness_rate, f64_from(34))

\* the empty cluster, where the total of the success rate is 0
C13_EmptyCluster ==
    Measured /\ type_pipelines = << >> /\ type_metrics.total_pipelines = 0

(***************************************************************************)
(* Properties of the client's error handling.                              *)
(***************************************************************************)
Handled == client_pc = "handled"

Success(status) == status \in 200..299

\* the field a well-formed body lacks first, "" when it lacks none
MissingField(q, body) ==
    IF body.data = None THEN "data"
    ELSE IF body.data[1].project = None THEN "project"
    ELSE LET project == body.data[1].project[1]
         IN  IF q = "pipelines"
             THEN (IF project.pipelines = None THEN "pipelines" ELSE "")
             ELSE IF project.pipeline = None THEN "pipeline"
             ELSE IF project.pipeline[1].jobs = None THEN "jobs"
             ELSE ""

WellFormed(remote) ==
    /\ remote.transport = "ok"
    /\ Success(remote.status)
    /\ remote.body.deserializable
    /\ remote.body.errors = None

round_trip(q, remote) ==
    IF q = "pipelines" THEN pipelines_round_trip(remote)
    ELSE jobs_round_trip(remote)

\* C14: a transport failure yields a Network error; a non-success HTTP
\* status yields an Api error; under a success status, a body that does
\* not deserialize or that carries GraphQL errors yields a Config error,
\* and a missing project, pipelines, pipeline or jobs field yields a Config
\* error whose message names the missing field.
C14_ErrorTaxonomy ==
    Handled =>
        LET remote == http_response
            body   == remote.body
        IN  IF remote.transport = "failed"
            THEN ~query_result.ok /\ query_result.kind = "Network"
            ELSE IF ~Success(remote.status)
            THEN ~query_result.ok /\ query_result.kind = "Api"
            ELSE IF ~body.deserializable \/ body.errors # None
            THEN ~query_result.ok /\ query_result.kind = "Config"
            ELSE MissingField(query, body) \in
                     {"project", "pipelines", "pipeline", "jobs"} =>
                     /\ ~query_result.ok
                     /\ query_result.kind = "Config"
                     /\ \A other \in Remotes(query) :
                           (/\ WellFormed(other)
                            /\ MissingField(query, other.body)
                                   # MissingField(query, body))
                           => round_trip(query, other).message
                                 # query_result.message

(***************************************************************************)
(* Properties of the report.                                               *)
(***************************************************************************)
Returned == main_pc = "returned"

\* C15: when no call fails and no pipeline with a duration was returned,
\* collect_insights returns a report with total_pipelines = 0,
\* total_pipeline_types = 0 and no pipeline type; in every report
\* total_pipeline_types is the length of pipeline_types.
C15_EmptyReportAndTypeCount ==
    Returned =>
        /\ (~SomeCallFailed /\ WithDuration(pipeline_nodes) = << >>) =>
              /\ outcome.kind = "report"
              /\ outcome.total_pipelines = 0
              /\ outcome.total_pipeline_types = 0
              /\ outcome.pipeline_types = << >>
        /\ outcome.kind = "report" =>
              outcome.total_pipeline_types = Len(outcome.pipeline_types)

\* the remote returned pipelines, none with a duration, and the report is
\* empty
C15_Witness ==
    /\ Returned
    /\ Len(pipeline_nodes) >= 2
    /\ WithDuration(pipeline_nodes) = << >>
    /\ outcome.kind = "report"
    /\ outcome.total_pipelines = 0
    /\ outcome.pipeline_types = << >>

\* the remote has no pipeline and the report is empty
C15_NoPipelines ==
    /\ Returned
    /\ limit >= 2
    /\ pipeline_nodes = << >>
    /\ outcome.kind = "report"
    /\ outcome.total_pipeline_types = 0

\* a report of several pipelines in fewer types
C15_FewerTypes ==
    /\ Returned
    /\ outcome.kind = "report"
    /\ outcome.total_pipelines > outcome.total_pipeline_types
    /\ outcome.total_pipeline_types > 0

(***************************************************************************)
(* Properties of the Token.                                                *)
(***************************************************************************)
RedactedText == <<"<", "r", "e", "d", "a", "c", "t", "e", "d", ">">>

\* C16: the Debug rendering of a token is the text <redacted> whatever its
\* secret, also inside the rendering of a struct that holds it, so two
\* tokens render alike; as_str returns the secret unchanged.
C16_TokenRendersRedacted ==
    /\ debug_out # None =>
          /\ \A i \in 1..2 : debug_out[1][i] = RedactedText
          /\ debug_out[1][1] = debug_out[1][2]
          /\ struct_out[1][1] = struct_out[1][2]
          /\ \A i \in 1..2 :
                \E k \in 1..(Len(struct_out[1][i]) - Len(RedactedText) + 1) :
                    SubSeq(struct_out[1][i], k, k + Len(RedactedText) - 1)
                        = RedactedText
    /\ str_out # None =>
          \A i \in 1..2 : str_out[1][i] = tokens[i].secret

\* an empty token and a token of MaxSecretLen characters, not all ASCII,
\* rendered and read
C16_Witness ==
    /\ debug_out # None
    /\ str_out # None
    /\ tokens[1].secret = << >>
    /\ Len(tokens[2].secret) = MaxSecretLen
    /\ tokens[2].secret[1] = "U+1F511"
    /\ str_out[1][2] = tokens[2].secret
    /\ debug_out[1][1] = debug_out[1][2]

(***************************************************************************)
(* Properties of the links.                                                *)
(***************************************************************************)
\* n is the segment of id after its final '/', the whole of id if it has
\* none
FinalSegment(id, n) ==
    /\ Len(n) <= Len(id)
    /\ n = SubSeq(id, Len(id) - Len(n) + 1, Len(id))
    /\ \A k \in 1..Len(n) : n[k] # "/"
    /\ Len(n) < Len(id) => id[Len(id) - Len(n)] = "/"

Segments(id) == {SubSeq(id, k, Len(id)) : k \in 1..(Len(id) + 1)}

\* C17: the link of a pipeline is {base}/{project}/-/pipelines/<N> and the
\* link of a job is {base}/{project}/-/jobs/<N>, <N> being the segment of
\* the id after its final '/', the whole id if it has no '/'.
C17_LinkEndsWithFinalSegment ==
    \A n \in Segments(gid) :
        FinalSegment(gid, n) =>
            /\ pipeline_url # None =>
                  pipeline_url[1] =
                      site.base_url \o <<"/">> \o site.project
                      \o <<"/", "-", "/", "p", "i", "p", "e", "l", "i", "n",
                           "e", "s", "/">>
                      \o n
            /\ job_url # None =>
                  job_url[1] =
                      site.base_url \o <<"/">> \o site.project
                      \o <<"/", "-", "/", "j", "o", "b", "s", "/">> \o n

\* the links of gid://gitlab/Ci::Pipeline/12 at https://gitlab.com for
\* group/project
C17_Witness ==
    /\ gid = PipelineGid \o <<"1", "2">>
    /\ site = [base_url |-> GitLabCom, project |-> GroupProject]
    /\ pipeline_url # None
    /\ job_url # None
    /\ SubSeq(pipeline_url[1], Len(pipeline_url[1]) - 2, Len(pipeline_url[1]))
          = <<"/", "1", "2">>

\* the link of an id without '/'
C17_NoSlash ==
    /\ gid = <<"1", "2", "1">>
    /\ pipeline_url # None
    /\ SubSeq(pipeline_url[1], Len(pipeline_url[1]) - 3, Len(pipeline_url[1]))
          = <<"/", "1", "2", "1">>

(***************************************************************************)
(* Properties of the grouping under permutation.                           *)
(***************************************************************************)
\* what a type counts, whatever the order of its pipelines and jobs
Counts(pt) ==
    [label        |-> pt.label,
     total        |-> pt.metrics.total_pipelines,
     successful   |-> pt.metrics.successful_pipelines.count,
     failed       |-> pt.metrics.failed_pipelines.count,
     pipeline_ids |-> Range(pt.metrics.successful_pipelines.links)
                        \cup Range(pt.metrics.failed_pipelines.links),
     jobs |-> {[name    |-> pt.metrics.jobs[k].name,
                total   |-> pt.metrics.jobs[k].total_executions,
                flaky   |-> pt.metrics.jobs[k].flaky_retries.count,
                failed  |-> pt.metrics.jobs[k].failed_executions.count] :
                  k \in 1..Len(pt.metrics.jobs)}]

CountsOf(types) == {Counts(types[t]) : t \in 1..Len(types)}

\* C19: the types of a list of pipelines and the types of any permutation
\* of it are the same set, each with the same total_pipelines, the same
\* counts of successful and failed pipelines, and for every job the same
\* total_executions, flaky_retries count and failed_executions count.
C19_GroupingIgnoresOrder ==
    (types_listing # None /\ types_shuffled # None) =>
        /\ Len(types_listing[1]) = Len(types_shuffled[1])
        /\ CountsOf(types_listing[1]) = CountsOf(types_shuffled[1])

\* three pipelines of two types listed in another order, a job retried in
\* one and failed in another, both lists grouped
C19_Witness ==
    /\ types_listing # None
    /\ types_shuffled # None
    /\ Len(listing[1]) = 3
    /\ listing[1][1] = shuffled[1][3]
    /\ listing[1][2] = shuffled[1][1]
    /\ Len(types_listing[1]) = 2
    /\ \E c \in CountsOf(types_listing[1]) :
          /\ c.total = 2
          /\ \E j \in c.jobs : j.flaky > 0 /\ j.failed > 0


(***************************************************************************)
(* Properties of the paginated pipeline-list fetch.                        *)
(***************************************************************************)
RECURSIVE nodes_before(_)
\* the nodes of the responses that came before request k
nodes_before(k) ==
    IF k <= 1 THEN 0 ELSE nodes_before(k - 1) + received[k - 1].nodes

\* C20: every request asks for min(limit - accumulated, 50) items; the first
\* request carries no cursor and each later one carries the end cursor of
\* the response just before it; a request is sent only while the accumulated
\* count is below limit and the response before it reported a next page and
\* carried an end cursor; the list returned is never longer than limit.
C20_PagingProtocol ==
    /\ \A k \in 1..Len(sent) :
          /\ sent[k].first = Min(pg_limit - nodes_before(k), PAGE_SIZE)
          /\ nodes_before(k) < pg_limit
          /\ k = 1 => sent[k].after = None
          /\ k > 1 => /\ sent[k].after = received[k - 1].end_cursor
                      /\ received[k - 1].end_cursor # None
                      /\ received[k - 1].has_next_page
    /\ Len(received) <= Len(sent)
    /\ Len(sent) <= Len(received) + 1
    /\ pg_result # None => Len(pg_result[1]) <= pg_limit

\* Three requests for 101 pipelines: 50, 50 and 1 asked, the second and the
\* third with the cursors of the first and the second response, the last
\* page longer than asked, and 101 pipelines returned.
C20_Witness ==
    /\ pg_limit = 2 * PAGE_SIZE + 1
    /\ Len(sent) = 3
    /\ sent[1].first = PAGE_SIZE
    /\ sent[2] = [first |-> PAGE_SIZE, after |-> Some("c1")]
    /\ sent[3] = [first |-> 1, after |-> Some("c2")]
    /\ Len(received) = 3
    /\ received[3].nodes > sent[3].first
    /\ pg_result # None
    /\ Len(pg_result[1]) = pg_limit

(***************************************************************************)
(* Properties of the job analysis of one pipeline.                         *)
(***************************************************************************)
\* the position of a stage in the pipeline's stage-order list, counted from
\* 0, a stage that the list does not hold counting as 0
StagePlace(p, stage) ==
    IF \E i \in 1..Len(p.stages) : p.stages[i] = stage
    THEN (CHOOSE i \in 1..Len(p.stages) : p.stages[i] = stage) - 1
    ELSE 0

\* the jobs of earlier stages than the stage of `job`
EarlierJobs(p, job) ==
    {p.jobs[i].name : i \in
        {k \in 1..Len(p.jobs) :
            StagePlace(p, p.jobs[k].stage) < StagePlace(p, job.stage)}}

Listed(seq) == {seq[i] : i \in 1..Len(seq)}

\* the record of a name (the records of one name differ in duration only)
RecordOf(p, name) ==
    p.jobs[CHOOSE i \in 1..Len(p.jobs) : p.jobs[i].name = name]

\* C21: the dependencies resolved for a job are its needs when the list is
\* explicit and non-empty, none when it is empty, and when it is absent
\* exactly the jobs of the pipeline in a stage of strictly smaller index, an
\* unlisted stage counting as index 0: so none for a job of an unlisted or
\* first stage, and never a job of the job's own stage.
C21_DependenciesInThreeModes ==
    \A name \in DOMAIN jm_deps :
        LET job == RecordOf(jm_pipeline, name)
        IN  /\ (job.needs # None /\ job.needs[1] # << >>) =>
                   jm_deps[name] = job.needs[1]
            /\ job.needs = Some(<< >>) => jm_deps[name] = << >>
            /\ job.needs = None =>
                   /\ Listed(jm_deps[name]) = EarlierJobs(jm_pipeline, job)
                   /\ Cardinality(Listed(jm_deps[name])) = Len(jm_deps[name])
                   /\ StagePlace(jm_pipeline, job.stage) = 0 =>
                          jm_deps[name] = << >>
                   /\ \A d \in Listed(jm_deps[name]) :
                          RecordOf(jm_pipeline, d).stage # job.stage

\* a job of the second stage with absent needs waits for the two jobs of
\* the first stage: one of them has absent needs and waits for none, the
\* other waits for the job that its needs name
C21_Witness ==
    /\ jm_pc = "done"
    /\ DOMAIN jm_deps = {"a", "b", "c"}
    /\ RecordOf(jm_pipeline, "c").needs = None
    /\ RecordOf(jm_pipeline, "c").stage = "test"
    /\ RecordOf(jm_pipeline, "a").stage = "build"
    /\ RecordOf(jm_pipeline, "a").needs = Some(<<"b">>)
    /\ jm_deps["a"] = <<"b">>
    /\ RecordOf(jm_pipeline, "b").stage = "build"
    /\ RecordOf(jm_pipeline, "b").needs = None
    /\ jm_deps["b"] = << >>
    /\ Listed(jm_deps["c"]) = {"a", "b"}

\* the record of a name that the job map holds: the last one in the list
LastRecord(p, name) ==
    p.jobs[CHOOSE i \in 1..Len(p.jobs) :
               /\ p.jobs[i].name = name
               /\ \A k \in (i + 1)..Len(p.jobs) : p.jobs[k].name # name]

\* deps(j) as a set
RefDeps(p, job) ==
    IF job.needs # None THEN Listed(job.needs[1]) ELSE EarlierJobs(p, job)

\* the reference definition of the finish time, on an acyclic pipeline
RECURSIVE RefFinish(_, _)
RefFinish(p, name) ==
    IF \A i \in 1..Len(p.jobs) : p.jobs[i].name # name THEN 0
    ELSE LET job  == LastRecord(p, name)
             deps == RefDeps(p, job)
         IN  IF deps = {} THEN job.duration
             ELSE Max({RefFinish(p, d) : d \in deps}) + job.duration

\* C22: on a pipeline with an acyclic dependency graph every finish time
\* computed equals the reference definition: the job's duration when it has
\* no dependencies, otherwise the greatest finish time of its dependencies
\* plus its duration (the duration of its record in the job map), a name
\* that is no job of the pipeline finishing at 0; and the time to feedback
\* reported for every job is that finish time.
C22_FinishTimesMatchReference ==
    (jm_finish_times # NoMap /\ Acyclic(jm_pipeline)) =>
        /\ \A name \in DOMAIN jm_finish_times :
               jm_finish_times[name] = RefFinish(jm_pipeline, name)
        /\ jm_pc = "done" =>
               \A i \in 1..Len(job_metrics) :
                   job_metrics[i].avg_time_to_feedback_seconds =
                       RefFinish(jm_pipeline, job_metrics[i].name)

\* a in the first stage, b in the second with absent needs, c needing b:
\* the finish times are 1, 2 and 3
C22_Witness ==
    /\ jm_pc = "done"
    /\ DOMAIN jm_finish_times = {"a", "b", "c"}
    /\ RecordOf(jm_pipeline, "a").stage = "build"
    /\ RecordOf(jm_pipeline, "b").stage = "test"
    /\ RecordOf(jm_pipeline, "b").needs = None
    /\ RecordOf(jm_pipeline, "c").needs = Some(<<"b">>)
    /\ jm_finish_times["a"] = 1
    /\ jm_finish_times["b"] = 2
    /\ jm_finish_times["c"] = 3

\* the jobs whose finish time is stored and that had dependencies
WaitedJobs ==
    {name \in DOMAIN jm_finish_times \cap DOMAIN jm_deps :
        jm_deps[name] # << >>}

SlowestTime(name) ==
    Max({jm_finish_times[d] : d \in Listed(jm_deps[name])})

\* predecessor[name], predecessor[predecessor[name]], .. from the far end
RECURSIVE ChainBefore(_)
ChainBefore(name) ==
    IF name \notin DOMAIN jm_predecessors THEN << >>
    ELSE ChainBefore(jm_predecessors[name]) \o <<jm_predecessors[name]>>

ReportedChains ==
    jm_pc = "done" =>
        \A i \in 1..Len(job_metrics) :
            LET listed == job_metrics[i].predecessors
            IN  /\ [k \in 1..Len(listed) |-> listed[k].name]
                     = ChainBefore(job_metrics[i].name)
                /\ \A k \in 1..Len(listed) :
                      listed[k].name # job_metrics[i].name

\* C23 as stated: whenever deps(j) is non-empty a predecessor is recorded
\* for j, a dependency of j with maximal finish time, and the predecessor
\* list reported for j is the chain of predecessors from the source toward
\* j, without j.
C23_PredecessorWheneverDeps ==
    /\ \A name \in WaitedJobs :
          /\ name \in DOMAIN jm_predecessors
          /\ jm_predecessors[name] \in Listed(jm_deps[name])
          /\ jm_finish_times[jm_predecessors[name]] = SlowestTime(name)
    /\ ReportedChains

\* C23 as amended: a predecessor is recorded for j exactly when deps(j) is
\* non-empty and some dependency finishes later than 0, and it is then a
\* dependency of j with maximal finish time; the predecessor list reported
\* for j is the chain of the recorded predecessors from the source toward
\* j, without j.
C23_PredecessorWhenDepsTakeTime ==
    /\ \A name \in WaitedJobs :
          /\ name \in DOMAIN jm_predecessors <=> SlowestTime(name) > 0
          /\ name \in DOMAIN jm_predecessors =>
                /\ jm_predecessors[name] \in Listed(jm_deps[name])
                /\ jm_finish_times[jm_predecessors[name]] = SlowestTime(name)
    /\ DOMAIN jm_predecessors \subseteq WaitedJobs
    /\ ReportedChains

\* c waits for b, which waits for a: the list of c is a, then b
C23_Witness ==
    /\ jm_pc = "done"
    /\ jm_predecessors = [n \in {"b", "c"} |-> IF n = "b" THEN "a" ELSE "b"]
    /\ \E i \in 1..Len(job_metrics) :
          /\ job_metrics[i].name = "c"
          /\ job_metrics[i].predecessors =
                <<[name |-> "a", avg_duration_seconds |-> 1],
                  [name |-> "b", avg_duration_seconds |-> 1]>>

(***************************************************************************)
(* Properties of the fast path of calculate_critical_path.                 *)
(***************************************************************************)
\* the total of the general walk: the greatest finish time of a job
WalkTotal == Max({finish_of(pipeline.jobs[i].name) : i \in 1..Len(pipeline.jobs)})

\* C24: when every job has an empty needs list, calculate_critical_path
\* returns a path of one element, a job of maximal duration, with a total
\* equal to that job's duration, and that total is the one the general
\* finish-time walk gives for the pipeline; five jobs of durations 1..5 give
\* the path ["5"] with total 5.
C24_FastPathEqualsWalk ==
    (path_pc = "done" /\ pipeline.jobs # << >>
       /\ \A i \in 1..Len(pipeline.jobs) : pipeline.jobs[i].needs = Some(<< >>))
    =>
        /\ critical_path # None
        /\ Len(critical_path[1].jobs) = 1
        /\ \E i \in 1..Len(pipeline.jobs) :
              /\ pipeline.jobs[i].name = critical_path[1].jobs[1].name
              /\ pipeline.jobs[i].duration
                   = critical_path[1].jobs[1].avg_duration
        /\ \A i \in 1..Len(pipeline.jobs) :
              pipeline.jobs[i].duration
                <= critical_path[1].jobs[1].avg_duration
        /\ critical_path[1].total_duration
             = critical_path[1].jobs[1].avg_duration
        /\ critical_path[1].total_duration = WalkTotal
        /\ pipeline = ParallelExample =>
              /\ critical_path[1].jobs[1].name = "5"
              /\ critical_path[1].total_duration = 5

\* the same on the pipelines where no name has two records
C24_FastPathEqualsWalkNoRetry ==
    (\A i, k \in 1..Len(pipeline.jobs) :
        pipeline.jobs[i].name = pipeline.jobs[k].name => i = k)
    => C24_FastPathEqualsWalk

(***************************************************************************)
(* Properties of the records of retried jobs in the job analysis.          *)
(***************************************************************************)
\* the final record of a name: the one with retried = false
FinalRecord(p, name) ==
    p.jobs[CHOOSE i \in 1..Len(p.jobs) :
               p.jobs[i].name = name /\ ~p.jobs[i].retried]

\* the reference finish time with the durations of the final records
RECURSIVE FinalFinish(_, _)
FinalFinish(p, name) ==
    IF \A i \in 1..Len(p.jobs) : p.jobs[i].name # name THEN 0
    ELSE LET job  == FinalRecord(p, name)
             deps == RefDeps(p, job)
         IN  IF deps = {} THEN job.duration
             ELSE Max({FinalFinish(p, d) : d \in deps}) + job.duration

MetricNames == {job_metrics[i].name : i \in 1..Len(job_metrics)}

\* one entry per distinct job name
OneEntryPerName ==
    /\ MetricNames = {jm_pipeline.jobs[i].name : i \in 1..Len(jm_pipeline.jobs)}
    /\ Len(job_metrics) = Cardinality(MetricNames)

\* C30: calculate_job_metrics returns exactly one entry per distinct job
\* name, and the duration reported for a name, which is also the one the
\* finish times of the jobs depending on it are made of, is the duration of
\* the final record of that name (retried = false), wherever that record is
\* in the job list.
C30_FinalRecordDuration ==
    jm_pc = "done" =>
        /\ OneEntryPerName
        /\ \A i \in 1..Len(job_metrics) :
              /\ job_metrics[i].avg_duration_seconds
                   = FinalRecord(jm_pipeline, job_metrics[i].name).duration
              /\ job_metrics[i].avg_time_to_feedback_seconds
                   = FinalFinish(jm_pipeline, job_metrics[i].name)

\* what holds instead: the record of a name that counts is the last one in
\* the job list
C30_LastRecordDuration ==
    jm_pc = "done" =>
        /\ OneEntryPerName
        /\ \A i \in 1..Len(job_metrics) :
              /\ job_metrics[i].avg_duration_seconds
                   = LastRecord(jm_pipeline, job_metrics[i].name).duration
              /\ job_metrics[i].avg_time_to_feedback_seconds
                   = RefFinish(jm_pipeline, job_metrics[i].name)

(***************************************************************************)
(* Properties of the aggregation over the pipelines of a cluster.          *)
(***************************************************************************)
\* the successful pipelines of the cluster that have a job, by place
SuccessfulWithJobs ==
    {i \in 1..Len(type_pipelines) :
        /\ type_pipelines[i].status = "success"
        /\ type_pipelines[i].jobs # << >>}

\* the least finish time of a job of the pipeline, the finish times being
\* those of the reference definition over the job map
FirstFeedback(p) ==
    LET times == {RefFinish(p, p.jobs[k].name) : k \in 1..Len(p.jobs)}
    IN  CHOOSE t \in times : \A other \in times : t <= other

RECURSIVE TotalFirstFeedback(_)
TotalFirstFeedback(indices) ==
    IF indices = {} THEN 0
    ELSE LET i == CHOOSE k \in indices : TRUE
         IN  FirstFeedback(type_pipelines[i])
               + TotalFirstFeedback(indices \ {i})

\* C25: the avg_time_to_feedback_seconds of a cluster is the mean, over its
\* successful pipelines that have at least one job, of the least finish
\* time of a job of the pipeline (0 when there is no such pipeline): failed
\* pipelines add nothing, and successful pipelines without jobs are in
\* neither the sum nor the count.
C25_MeanOfFirstFeedback ==
    metrics_pc = "done" =>
        type_metrics.avg_time_to_feedback_seconds =
            IF SuccessfulWithJobs = {} THEN f64_zero
            ELSE f64_div(TotalFirstFeedback(SuccessfulWithJobs),
                         Cardinality(SuccessfulWithJobs))

\* two successful pipelines, one with a at 2 and b after it at 3, one
\* without jobs: the mean is 2
C25_Witness ==
    /\ metrics_pc = "done"
    /\ Len(type_pipelines) = 2
    /\ type_pipelines[1].status = "success"
    /\ type_pipelines[2].status = "success"
    /\ type_pipelines[2].jobs = << >>
    /\ Len(type_pipelines[1].jobs) = 2
    /\ RefFinish(type_pipelines[1], "a") = 2
    /\ RefFinish(type_pipelines[1], "b") = 3
    /\ type_metrics.avg_time_to_feedback_seconds = f64_from(2)

\* the successful pipelines of the cluster, by place
Successful ==
    {i \in 1..Len(type_pipelines) : type_pipelines[i].status = "success"}

\* the job names that occur in a successful pipeline
SuccessfulNames ==
    UNION {{type_pipelines[i].jobs[k].name :
               k \in 1..Len(type_pipelines[i].jobs)} : i \in Successful}

\* C29: a cluster without a successful pipeline reports an empty jobs list,
\* avg_time_to_feedback_seconds 0 and avg_duration_seconds 0, whatever the
\* jobs of its failed pipelines did; a cluster with a successful pipeline
\* reports exactly one entry per job name that occurs in a successful
\* pipeline, and the entry's executions, flaky retries and failed
\* executions are counted over all the pipelines of the cluster.
C29_JobsOfSuccessfulCountsOfAll ==
    Measured =>
        IF Successful = {}
        THEN /\ type_metrics.jobs = << >>
             /\ type_metrics.avg_time_to_feedback_seconds = f64_zero
             /\ type_metrics.avg_duration_seconds = f64_zero
        ELSE /\ {type_metrics.jobs[k].name : k \in 1..Len(type_metrics.jobs)}
                  = SuccessfulNames
             /\ Len(type_metrics.jobs) = Cardinality(SuccessfulNames)
             /\ \A k \in 1..Len(type_metrics.jobs) :
                   LET job  == type_metrics.jobs[k]
                       recs == [i \in Running(job.name) |->
                                   RecordsIn(type_pipelines[i], job.name)]
                   IN  /\ job.total_executions =
                             Total([i \in Running(job.name) |-> Len(recs[i])],
                                   Running(job.name))
                       /\ job.flaky_retries.count =
                             Total([i \in Running(job.name) |->
                                       IF Flaky(recs[i]) THEN Retries(recs[i])
                                       ELSE 0],
                                   Running(job.name))
                       /\ job.failed_executions.count =
                             Total([i \in Running(job.name) |->
                                       IF Failed(recs[i]) THEN 1 ELSE 0],
                                   Running(job.name))

\* a successful pipeline where job a ran once, and a failed pipeline where
\* it was retried and failed again: the one entry has three executions and
\* one failed execution, all but one execution from the failed pipeline
C29_Witness ==
    /\ Measured
    /\ Len(type_pipelines) = 2
    /\ type_pipelines[1].status = "success"
    /\ Len(type_pipelines[1].jobs) = 1
    /\ type_pipelines[2].status = "failed"
    /\ Len(type_pipelines[2].jobs) = 2
    /\ Len(type_metrics.jobs) = 1
    /\ type_metrics.jobs[1].name = "a"
    /\ type_metrics.jobs[1].total_executions = 3
    /\ type_metrics.jobs[1].failed_executions.count = 1
    /\ type_metrics.jobs[1].flaky_retries.count = 0

(***************************************************************************)
(* Properties of the memo and the end of the finish-time computation.      *)
(***************************************************************************)
JobNamesOf(p) == {p.jobs[i].name : i \in 1..Len(p.jobs)}

\* finish_times.insert ran at most once for every name
StoredOnce == \A name \in DOMAIN jm_stores : jm_stores[name] <= 1

\* C26: on a pipeline whose dependency graph is acyclic the computation
\* comes to its end, with a finish time in the memo for every job name; the
\* finish time of a name is stored at most once, every later request for it
\* being answered from the memo; and the recursion runs away only on a
\* pipeline with a dependency cycle, where it always does.
C26_EndsUnlessCycle ==
    /\ [](/\ StoredOnce
          /\ jm_pc = "overflow" => ~Acyclic(jm_pipeline)
          /\ jm_pc = "done" =>
                /\ Acyclic(jm_pipeline)
                /\ JobNamesOf(jm_pipeline) \subseteq DOMAIN jm_finish_times)
    /\ (jm_pc = "input" /\ Acyclic(jm_pipeline)) ~> (jm_pc = "done")
    /\ (jm_pc = "input" /\ ~Acyclic(jm_pipeline)) ~> (jm_pc = "overflow")

\* b and c both wait for a: its finish time was asked for three times and
\* stored once
C26_Witness ==
    /\ jm_pc = "done"
    /\ jm_deps = [n \in {"a", "b", "c"} |->
                     IF n = "a" THEN << >> ELSE <<"a">>]
    /\ jm_stores = [n \in {"a", "b", "c"} |-> 1]
    /\ DOMAIN jm_finish_times = {"a", "b", "c"}

\* the pages fetch_pipeline_jobs has read, all but the last
EarlierJobPages == 1..(Len(jb_received) - 1)

\* C27: against a remote whose pages that report a next page with a cursor
\* hold at least one node, fetch_pipelines_with_status always finishes: each
\* page after which it goes round again has made all_pipelines longer, it
\* never sends more than `limit` requests, and it returns.  The loop of
\* fetch_pipeline_jobs, which has no limit, ends with the first page that
\* reports no next page or gives no cursor and not before; after any other
\* page it sends the next request, for what follows the cursor just given.
C27_PagingLoopsEnd ==
    /\ [](Len(sent) <= pg_limit)
    /\ [][(pg_pc = "await" /\ pg_pc' = "loop")
            => Len(pg_pipelines') > Len(pg_pipelines)]_vars
    /\ (pg_pc = "loop") ~> (pg_pc \in {"ok", "err"})
    /\ [](jb_pc = "ok" =>
            /\ Len(jb_received) = Len(jb_sent)
            /\ ~promises_more(jb_received[Len(jb_received)])
            /\ \A k \in EarlierJobPages : promises_more(jb_received[k]))
    /\ [](\A k \in 1..Len(jb_sent) :
            jb_sent[k].after =
              IF k = 1 THEN None ELSE jb_received[k - 1].end_cursor)
    /\ \A k \in 1..(MaxJobRequests - 1) :
         (/\ Len(jb_received) = k
          /\ promises_more(jb_received[k])) ~> (Len(jb_sent) = k + 1)

\* limit 3 served one node at a time: three requests, each page promising
\* more, and the function has returned its three pipelines
C27_Witness ==
    /\ pg_limit = 3
    /\ pg_pc = "ok"
    /\ Len(sent) = 3
    /\ \A k \in 1..3 : received[k].nodes = 1 /\ promises_more(received[k])
    /\ pg_result = Some(<<1, 2, 3>>)

\* C28: each status stream is capped at floor(limit / 2), so with limit 0 or
\* 1 fetch_pipelines sends no request and returns an empty list, with an odd
\* limit it returns at most limit - 1 pipelines whatever the remote holds,
\* and what one stream falls short of its half is not made up from the
\* other: no request asks for more than a half, and the result is no longer
\* than what either stream brought plus one half.
C28_HalvesNeverMadeUp ==
    /\ limit \in {0, 1} =>
          /\ \A s \in StreamSet : stream_reqs[s] = 0 /\ request[s] = None
          /\ pipeline_nodes = << >>
    /\ \A s \in StreamSet :
          request[s] # None =>
              request[s][1].first <= limit \div 2 - Len(all_pipelines[s])
                 \/ stream_pc[s] # "await"
    /\ \A s \in StreamSet :
          request[s] # None => request[s][1].first <= limit \div 2
    /\ Fetched =>
          /\ limit % 2 = 1 => Len(pipeline_nodes) <= limit - 1
          /\ \A s \in StreamSet :
                Len(pipeline_nodes) <= Len(all_pipelines[s]) + limit \div 2

\* limit 3: the SUCCESS stream was asked and brought nothing, the FAILED
\* stream was sent a page longer than asked for, and one pipeline is returned
C28_Witness ==
    /\ Fetched
    /\ limit = 3
    /\ stream_reqs["SUCCESS"] = 1
    /\ all_pipelines["SUCCESS"] = << >>
    /\ stream_reqs["FAILED"] = 1
    /\ Len(pipeline_nodes) = 1
    /\ pipeline_nodes[1].status = "FAILED"

=============================================================================
